---- MODULE Spec2Model ----
(***************************************************************************)
(* Arm-drift scoring Lambdas of the stroke detection repository and the    *)
(* client scripts that call them.                                          *)
(*                                                                         *)
(* Numbers.  Keypoint coordinates are grid points k/Grid, k in 0..MaxY.    *)
(* A length is kept as the integer under its square root (in grid units    *)
(* squared), and an asymmetry score as the exact real                      *)
(*      num / (sqrt(sqA) + sqrt(sqB))                                      *)
(* so that every threshold comparison of the source is decided exactly,    *)
(* by squaring, with integer arithmetic.  Floating-point rounding of the   *)
(* Python floats is not modelled.                                          *)
(*                                                                         *)
(* Texts.  Message strings are written in ASCII: the emoji the source puts *)
(* in front of some messages are left out, and a text built with an        *)
(* f-string from an exception or a measurement is represented by the       *)
(* exception's type name or by its fixed part.                             *)
(*                                                                         *)
(* Handlers.  A Python function is one operator; the values it binds on    *)
(* the way (body, analysis, result, ...) are the parameters of the local   *)
(* operators of its LET, applied in the order of the source's statements.  *)
(***************************************************************************)
EXTENDS Integers, Sequences, FiniteSets, TLC

\* ---------------------------------------------------------------- bounds
MaxY == 8          \* y-coordinates are k/MaxY, k in 0..MaxY
MaxX == 1          \* x-coordinates of the wrists are k/MaxY, k in 0..MaxX
MaxElapsed == 1    \* time.time() differences seen by one invocation

Grid == MaxY

Max(a, b) == IF a >= b THEN a ELSE b
Min(a, b) == IF a <= b THEN a ELSE b
Abs(a) == IF a >= 0 THEN a ELSE 0 - a

RECURSIVE FracLess(_, _, _, _)
\* a/b < c/d for naturals a, c and positive b, d, by continued fractions (no products)
FracLess(a, b, c, d) ==
    IF a \div b # c \div d THEN a \div b < c \div d
    ELSE IF c % d = 0 THEN FALSE
    ELSE IF a % b = 0 THEN TRUE
    ELSE FracLess(d, c % d, b, a % b)

\* 4 * A * B > d * d  and  4 * A * B < d * d  for naturals A, B, d
FourABGreater(A, B, d) ==
    IF A = 0 \/ B = 0 THEN FALSE
    ELSE IF d = 0 THEN TRUE
    ELSE FracLess(d, 2 * A, 2 * B, d)
FourABLess(A, B, d) ==
    IF d = 0 THEN FALSE
    ELSE IF A = 0 \/ B = 0 THEN TRUE
    ELSE FracLess(2 * B, d, d, 2 * A)

\* sqrt(A) + sqrt(B) > c, decided exactly for naturals A, B and integer c
SumSqrtGT(A, B, c) ==
    IF c < 0 THEN TRUE
    ELSE IF A = B THEN A > (c * c) \div 4
    ELSE LET d == c * c - A - B
         IN  IF d < 0 THEN TRUE
             ELSE IF d > 2 * Max(A, B) THEN FALSE
             ELSE FourABGreater(A, B, d)

\* sqrt(A) + sqrt(B) < c
SumSqrtLT(A, B, c) ==
    IF c <= 0 THEN FALSE
    ELSE IF A = B THEN A < (c * c + 3) \div 4
    ELSE LET d == c * c - A - B
         IN  IF d <= 0 THEN FALSE
             ELSE IF d > 2 * Max(A, B) THEN TRUE
             ELSE FourABLess(A, B, d)

\* ------------------------------------------------------ asymmetry scores
\* the real number num / (sqrt(sqA) + sqrt(sqB)); sqA + sqB > 0
MkScore(n, a, b) == [num |-> n, sqA |-> a, sqB |-> b]
ZeroScore == MkScore(0, 1, 1)
\* the rational p/q (q > 0)
RatScore(p, q) == MkScore(2 * p, q * q, q * q)

RECURSIVE GCD(_, _)
GCD(a, b) == IF b = 0 THEN a ELSE GCD(b, a % b)

\* s < p/q, s > p/q, s = p/q for naturals p, q with q > 0 (p/q is reduced first)
ScoreLT(s, p, q) ==
    LET g == GCD(p, q)
    IN  SumSqrtGT((p \div g) * (p \div g) * s.sqA, (p \div g) * (p \div g) * s.sqB, (q \div g) * s.num)
ScoreGT(s, p, q) ==
    LET g == GCD(p, q)
    IN  SumSqrtLT((p \div g) * (p \div g) * s.sqA, (p \div g) * (p \div g) * s.sqB, (q \div g) * s.num)
ScoreEQ(s, p, q) == ~ScoreLT(s, p, q) /\ ~ScoreGT(s, p, q)
ScoreIsZero(s) == s.num = 0
\* s / 100
ScoreDiv100(s) == MkScore(s.num, 10000 * s.sqA, 10000 * s.sqB)

\* ------------------------------------------------------------- requests
KP == <<"left_wrist", "right_wrist", "left_shoulder", "right_shoulder">>
KPNames == {KP[i] : i \in 1..4}

Point(px, py) == [x |-> px, y |-> py]
MkPose(lw, rw, ls, rs) ==
    [left_wrist |-> lw, right_wrist |-> rw, left_shoulder |-> ls, right_shoulder |-> rs]

\* the poses of the grid: shoulders on the x = 0 column, wrists at any height,
\* the left wrist at any x and the right wrist at the smallest or largest x
FinePoses ==
    { MkPose(Point(lx, ly), Point(rx, ry), Point(0, sy), Point(0, ty)) :
        lx \in 0..MaxX, ly \in 0..MaxY, rx \in {0, MaxX}, ry \in 0..MaxY,
        sy \in 0..MaxY, ty \in 0..MaxY }

\* poses on the corners of the grid, used together with malformed requests
CoarsePoses ==
    { MkPose(Point(lx, ly), Point(0, ry), Point(0, sy), Point(0, ty)) :
        lx \in {0, MaxX}, ly \in {0, MaxY}, ry \in {0, MaxY - 1, MaxY},
        sy \in {0, MaxY}, ty \in {0} }

\* what is wrong with the 'keypoints' object of a request
DefectKinds == {"drop_kp", "kp_not_dict", "drop_x", "drop_y", "y_string"}
NoDefect == [kind |-> "none", kp |-> "left_wrist"]
Defects ==
    {NoDefect}
    \cup { [kind |-> k, kp |-> n] : k \in DefectKinds, n \in KPNames }
    \cup { [kind |-> k, kp |-> "left_wrist"] :
             k \in {"no_keypoints", "keypoints_empty", "keypoints_list"} }

NoArmY == [present |-> FALSE, left |-> 0, right |-> 0]

\* the JSON object of a request (the iOS payload)
MkPayload(pose, defect, force, arm) ==
    [pose |-> pose, defect |-> defect, force_drift |-> force, arm_y |-> arm,
     keypoints_history |-> <<>>, test_duration |-> 0, eye_closed |-> FALSE]

\* how the payload reaches the handler
EventShapes ==
    {"body_str", "body_obj", "direct", "body_bad_json", "body_json_list",
     "body_null", "not_dict"}

MkEvent(shape, payload) == [shape |-> shape, payload |-> payload]

ScoringEvent(p) == MkEvent("body_str", MkPayload(p, NoDefect, FALSE, NoArmY))

EnvelopeEvents ==
    { MkEvent(s, MkPayload(p, d, f, NoArmY)) :
        s \in EventShapes, p \in CoarsePoses, d \in Defects, f \in BOOLEAN }

ArmYEvents ==
    { MkEvent(s, MkPayload(MkPose(Point(0, 0), Point(0, 0), Point(0, 0), Point(0, 0)),
                           [kind |-> "no_keypoints", kp |-> "left_wrist"], FALSE,
                           [present |-> pr, left |-> l, right |-> r])) :
        s \in EventShapes, pr \in BOOLEAN, l \in 0..MaxY, r \in 0..MaxY }

\* ---- Python values: exceptions and dictionary access
Raise(e) == [raised |-> e, val |-> [none |-> TRUE]]
Return(v) == [raised |-> "none", val |-> v]
Raised(r) == r.raised # "none"

\* json.loads of the request body string
JsonLoadsBody(event) ==
    CASE event.shape = "body_str" -> Return([type |-> "dict", payload |-> event.payload])
      [] event.shape = "body_json_list" -> Return([type |-> "list", payload |-> event.payload])
      [] OTHER -> Raise("JSONDecodeError")

\* json.dumps of a response dictionary: the text of a JSON object
JsonDumps(dict) == [json |-> "object", text |-> dict]
\* json.loads of a response body
JsonLoads(str) == str.text

\* keypoints = body.get('keypoints', {})
KeypointsType(payload) ==
    CASE payload.defect.kind = "no_keypoints" -> "empty_dict"
      [] payload.defect.kind = "keypoints_empty" -> "empty_dict"
      [] payload.defect.kind = "keypoints_list" -> "list"
      [] OTHER -> "dict"

HasDefect(payload, kind, name) ==
    payload.defect.kind = kind /\ payload.defect.kp = name

\* name in keypoints
KpPresent(payload, name) ==
    /\ KeypointsType(payload) = "dict"
    /\ ~HasDefect(payload, "drop_kp", name)
KpIsDict(payload, name) == ~HasDefect(payload, "kp_not_dict", name)
KpHasX(payload, name) == ~HasDefect(payload, "drop_x", name)
KpHasY(payload, name) == ~HasDefect(payload, "drop_y", name)
KpYIsNumber(payload, name) == ~HasDefect(payload, "y_string", name)
\* len(keypoints)
KeypointsLen(payload) ==
    CASE KeypointsType(payload) = "empty_dict" -> 0
      [] KeypointsType(payload) = "list" -> 1
      [] payload.defect.kind = "drop_kp" -> 3
      [] OTHER -> 4

Headers == [ContentType |-> "application/json", AccessControlAllowOrigin |-> "*"]

\* the value a handler hands back to the Lambda runtime: the envelope it
\* returned, or the exception that escaped it
Envelope(code, dict) ==
    [escaped |-> "none", statusCode |-> code, headers |-> Headers, body |-> JsonDumps(dict)]
Escaped(e) ==
    [escaped |-> e, statusCode |-> 0, headers |-> Headers, body |-> JsonDumps([none |-> TRUE])]

\* 'except Exception' and the narrower except clauses of the source
ExceptionTypes ==
    {"KeyError", "TypeError", "AttributeError", "JSONDecodeError", "ZeroDivisionError"}
\* an except clause that names two exception types where the source names Exception
CatchesKeyAndTypeError(clause, e) == e \in clause \cap {"KeyError", "TypeError"}
Catches(clause, e) == e \in clause


\* ---------------------------------------------------------------- geometry
SqDist(a, b) == (a.x - b.x) * (a.x - b.x) + (a.y - b.y) * (a.y - b.y)
\* the squares of the Euclidean shoulder-to-wrist distances
LeftArmSq(pose) == SqDist(pose.left_wrist, pose.left_shoulder)
RightArmSq(pose) == SqDist(pose.right_wrist, pose.right_shoulder)
\* the vertical shoulder-to-wrist distances and the wrist-to-wrist drift
LeftArmV(pose) == Abs(pose.left_wrist.y - pose.left_shoulder.y)
RightArmV(pose) == Abs(pose.right_wrist.y - pose.right_shoulder.y)
\* the drift measured from each arm's own shoulder
ShoulderRelativeDrift(pose) == Abs(LeftArmV(pose) - RightArmV(pose))
VerticalDrift(pose) == Abs(pose.left_wrist.y - pose.right_wrist.y)

\* avg_arm_length < p/q and > p/q, avg_arm_length = (sqrt(A) + sqrt(B)) / 2 in grid units
AvgLenLT(A, B, p, q) ==
    LET g == GCD(2 * p, q)
    IN  SumSqrtLT((q \div g) * (q \div g) * A, (q \div g) * (q \div g) * B, ((2 * p) \div g) * Grid)
AvgLenGT(A, B, p, q) ==
    LET g == GCD(2 * p, q)
    IN  SumSqrtGT((q \div g) * (q \div g) * A, (q \div g) * (q \div g) * B, ((2 * p) \div g) * Grid)

\* ================================================ lambda_robust_asymmetry
Robust_NIHSS_0_NORMAL == 20
Robust_NIHSS_1_MILD == 35
Robust_NIHSS_2_MODERATE == 50
Robust_NIHSS_3_SEVERE == 70

NihssResult(score, severity, text) ==
    [nihss_motor_score |-> score, nihss_total |-> score, severity |-> severity,
     clinical_interpretation |-> text]

\* the threshold ladder of calculate_nihss_motor_score, thresholds in percent
MotorLadder(y, t0, t1, t2, t3) ==
    IF ScoreLT(y, t0, 100)
    THEN NihssResult(0, "normal", "No significant drift detected. Arms held steady within normal variation range.")
    ELSE IF ScoreLT(y, t1, 100)
    THEN NihssResult(1, "mild", "Mild arm variation detected. Arms show slight positioning differences but remain functional.")
    ELSE IF ScoreLT(y, t2, 100)
    THEN NihssResult(2, "moderate", "Moderate arm variation detected. Arms show noticeable positioning differences but maintain some control.")
    ELSE IF ScoreLT(y, t3, 100)
    THEN NihssResult(3, "severe", "Severe arm variation detected. Arms show significant positioning differences with limited control.")
    ELSE NihssResult(4, "critical", "Critical arm variation detected. Arms show severe positioning differences or inability to maintain position.")

\* if y_difference > 1.0: y_difference = y_difference / 100.0
PercentToDecimal(y) == IF ScoreGT(y, 1, 1) THEN ScoreDiv100(y) ELSE y

Robust_calculate_nihss_motor_score(y_difference) ==
    MotorLadder(PercentToDecimal(y_difference), Robust_NIHSS_0_NORMAL, Robust_NIHSS_1_MILD,
                Robust_NIHSS_2_MODERATE, Robust_NIHSS_3_SEVERE)

\* all(kp.get('x') is not None and kp.get('y') is not None for kp in required_keypoints)
RECURSIVE RequiredKeypoints(_, _)
RequiredKeypoints(payload, i) ==
    IF i > 4 THEN "all"
    ELSE IF ~KpPresent(payload, KP[i]) THEN "missing"
    ELSE IF ~KpIsDict(payload, KP[i]) THEN "AttributeError"
    ELSE IF ~KpHasX(payload, KP[i]) \/ ~KpHasY(payload, KP[i]) THEN "missing"
    ELSE RequiredKeypoints(payload, i + 1)

AllYNumbers(payload) == \A n \in KPNames : KpYIsNumber(payload, n)

\* arm_length_diff > p/q
ArmLengthDiffGT(A, B, p, q) ==
    IF Max(A, B) > 0
    THEN (q - p) * (q - p) * Max(A, B) > q * q * Min(A, B)
    ELSE q > p

Robust_Quality(A, B) ==
    LET small_arm_lengths == AvgLenLT(A, B, 5, 100)
        very_small_arm_lengths == AvgLenLT(A, B, 2, 100)
    IN  IF very_small_arm_lengths \/ ArmLengthDiffGT(A, B, 8, 10) THEN "very_poor"
        ELSE IF small_arm_lengths \/ ArmLengthDiffGT(A, B, 5, 10) THEN "poor"
        ELSE IF ArmLengthDiffGT(A, B, 3, 10) THEN "fair"
        ELSE "good"

Robust_assess_keypoint_detection_quality(payload) ==
    LET Rated(q) ==
            Return([quality |-> q,
                    reason |-> CASE q = "very_poor" -> "Very small arm lengths or large difference"
                                 [] q = "poor" -> "Small arm lengths or significant difference"
                                 [] q = "fair" -> "Moderate arm length difference"
                                 [] OTHER -> "Good arm length consistency"])
        Checked(req) ==
            IF req = "AttributeError" THEN Raise("AttributeError")
            ELSE IF req = "missing"
            THEN Return([quality |-> "poor", reason |-> "Missing required keypoints"])
            ELSE IF ~AllYNumbers(payload) THEN Raise("TypeError")
            ELSE Rated(Robust_Quality(LeftArmSq(payload.pose), RightArmSq(payload.pose)))
    IN  Checked(RequiredKeypoints(payload, 1))

\* the first exception of  kp = keypoints[name]  for the four names, then kp['y']
\* of both wrists and  abs(left_wrist['y'] - right_wrist['y'])
Robust_ExtractError(payload) ==
    IF \E n \in KPNames : ~KpPresent(payload, n) THEN "KeyError"
    ELSE IF ~KpIsDict(payload, "left_wrist") THEN "TypeError"
    ELSE IF ~KpHasY(payload, "left_wrist") THEN "KeyError"
    ELSE IF ~KpIsDict(payload, "right_wrist") THEN "TypeError"
    ELSE IF ~KpHasY(payload, "right_wrist") THEN "KeyError"
    ELSE IF ~KpYIsNumber(payload, "left_wrist") \/ ~KpYIsNumber(payload, "right_wrist")
    THEN "TypeError"
    ELSE "none"

\* the drift divided by the mean of the vertical arm lengths, whatever A and B are
VerticalNormalizedScore(pose, A, B, fallback) ==
    IF LeftArmV(pose) + RightArmV(pose) > 0
    THEN MkScore(2 * Abs(pose.left_wrist.y - pose.right_wrist.y),
                 LeftArmV(pose) * LeftArmV(pose), RightArmV(pose) * RightArmV(pose))
    ELSE fallback

\* vertical_drift / avg_arm_length if avg_arm_length > 0.01, else the fallback
NormalizedScore(pose, A, B, fallback) ==
    IF AvgLenGT(A, B, 1, 100)
    THEN MkScore(2 * VerticalDrift(pose), A, B)
    ELSE fallback

AbsoluteDrift(pose) == RatScore(VerticalDrift(pose), Grid)

Robust_drift_detected(asymmetry_score) == ScoreGT(asymmetry_score, 5, 100)

Robust_calculate_robust_asymmetry(payload) ==
    LET Result(pose, qa, poor, asymmetry_score, nihss_result) ==
            Return([asymmetry_score |-> asymmetry_score,
                    asymmetry_percent |-> MkScore(100 * asymmetry_score.num, asymmetry_score.sqA, asymmetry_score.sqB),
                    drift_detected |-> Robust_drift_detected(asymmetry_score),
                    method_used |-> IF poor THEN "absolute_vertical_drift" ELSE "normalized_vertical_drift",
                    quality_assessment |-> qa,
                    vertical_drift |-> AbsoluteDrift(pose),
                    nihss_motor_score |-> nihss_result.nihss_motor_score,
                    nihss_total |-> nihss_result.nihss_motor_score,
                    severity |-> nihss_result.severity,
                    clinical_interpretation |-> nihss_result.clinical_interpretation,
                    error |-> "None"])
        Graded(pose, qa, poor, asymmetry_score) ==
            Result(pose, qa, poor, asymmetry_score,
                   Robust_calculate_nihss_motor_score(asymmetry_score))
        Measured(pose, qa, poor) ==
            Graded(pose, qa, poor,
                   IF poor THEN AbsoluteDrift(pose)
                   ELSE NormalizedScore(pose, LeftArmSq(pose), RightArmSq(pose), AbsoluteDrift(pose)))
        Assessed(qa, extract_error) ==
            IF Raised(qa) THEN qa
            ELSE IF qa.val.quality = "very_poor"
            THEN Return([asymmetry_score |-> ZeroScore, asymmetry_percent |-> ZeroScore,
                         drift_detected |-> FALSE, method_used |-> "fallback",
                         quality_assessment |-> qa.val,
                         error |-> "Very poor keypoint detection quality - cannot assess asymmetry"])
            ELSE IF extract_error # "none" THEN Raise(extract_error)
            ELSE Measured(payload.pose, qa.val, qa.val.quality \in {"poor", "very_poor"})
    IN  Assessed(Robust_assess_keypoint_detection_quality(payload), Robust_ExtractError(payload))

\* body = json.loads(event['body']) / event['body'] / event   (robust, keypoint_fixed)
ParseBodyOrEvent(event) ==
    CASE event.shape = "not_dict" -> Return([type |-> "list", payload |-> event.payload])
      [] event.shape \in {"body_str", "body_bad_json", "body_json_list"} -> JsonLoadsBody(event)
      [] event.shape = "body_null" -> Return([type |-> "None", payload |-> event.payload])
      [] OTHER -> Return([type |-> "dict", payload |-> event.payload])

ForcedScore == RatScore(8, 100)

\* the analysis_result of a request that does not set force_drift
KeepAnalysis(payload, r) == r

\* if force_drift: overwrite five entries of analysis_result
ApplyForceDrift(payload, r) ==
    IF payload.force_drift
    THEN [r EXCEPT !.drift_detected = TRUE, !.asymmetry_score = ForcedScore,
                   !.nihss_motor_score = 3, !.severity = "severe",
                   !.clinical_interpretation = "FORCED DRIFT for testing purposes"]
    ELSE r

ErrorBody400(text) ==
    [error |-> text, drift_detected |-> FALSE, asymmetry_score |-> ZeroScore,
     nihss_motor_score |-> 0]

\* the statements of lambda_handler inside its try block
Robust_TryBlock(event) ==
    LET Respond(r) ==
            Return(Envelope(200,
              [drift_detected |-> r.drift_detected,
               asymmetry_score |-> r.asymmetry_score,
               asymmetry_percent |-> r.asymmetry_percent,
               y_difference |-> r.asymmetry_score,
               clinical_score |-> r.nihss_motor_score,
               nihss_motor_score |-> r.nihss_motor_score,
               nihss_total |-> r.nihss_total,
               severity |-> r.severity,
               message |-> r.clinical_interpretation,
               clinical_interpretation |-> r.clinical_interpretation,
               test_quality |-> "robust_keypoint_analysis",
               research_based |-> TRUE,
               clinical_standards |-> "NIHSS_Motor_Arm_Item5_Robust",
               analysis_method |-> r.method_used,
               detection_quality |-> r.quality_assessment.quality,
               quality_reason |-> r.quality_assessment.reason,
               vertical_drift |-> r.vertical_drift]))
        Analysed(payload, analysis) ==
            IF Raised(analysis) THEN analysis
            ELSE IF analysis.val.error # "None"
            THEN Return(Envelope(400, ErrorBody400(analysis.val.error)))
            ELSE Respond(ApplyForceDrift(payload, analysis.val))
        Parsed(body) ==
            IF Raised(body) THEN body
            ELSE IF body.val.type # "dict" THEN Raise("AttributeError")
            ELSE IF KeypointsType(body.val.payload) = "list" THEN Raise("AttributeError")
            ELSE Analysed(body.val.payload, Robust_calculate_robust_asymmetry(body.val.payload))
    IN  Parsed(ParseBodyOrEvent(event))

ErrorBody500(e) ==
    [error |-> e, drift_detected |-> FALSE, asymmetry_score |-> ZeroScore,
     nihss_motor_score |-> 0]

\* try: ... except <clause> as e: return the 500 envelope
\* (errorBody is the body the except clause builds from block.raised)
TryExcept(block, clause, errorBody) ==
    IF ~Raised(block) THEN block.val
    ELSE IF Catches(clause, block.raised) THEN Envelope(500, errorBody)
    ELSE Escaped(block.raised)

Robust_lambda_handler(event) ==
    LET Except(block) == TryExcept(block, ExceptionTypes, ErrorBody500(block.raised))
    IN  Except(Robust_TryBlock(event))


\* ================================================== lambda_keypoint_fixed
KeypointFixed_NIHSS_0_NORMAL == 20
KeypointFixed_NIHSS_1_MILD == 35
KeypointFixed_NIHSS_2_MODERATE == 50
KeypointFixed_NIHSS_3_SEVERE == 70

KeypointFixed_calculate_nihss_motor_score(y_difference) ==
    MotorLadder(PercentToDecimal(y_difference), KeypointFixed_NIHSS_0_NORMAL,
                KeypointFixed_NIHSS_1_MILD, KeypointFixed_NIHSS_2_MODERATE,
                KeypointFixed_NIHSS_3_SEVERE)

KeypointFixed_drift_detected(asymmetry_score) ==
    ScoreGT(asymmetry_score, KeypointFixed_NIHSS_1_MILD, 100)

AnalysisError(text) ==
    [error |-> text, asymmetry_score |-> ZeroScore, drift_detected |-> FALSE,
     nihss_motor_score |-> 0]

\* the try block of analyze_keypoint_asymmetry
KeypointFixed_AnalyzeTry(payload) ==
    LET Result(pose, A, B, asymmetry_score, nihss_result) ==
            Return([asymmetry_score |-> asymmetry_score,
                    asymmetry_percent |-> MkScore(100 * asymmetry_score.num, asymmetry_score.sqA, asymmetry_score.sqB),
                    drift_detected |-> KeypointFixed_drift_detected(asymmetry_score),
                    left_arm_length |-> A, right_arm_length |-> B,
                    avg_arm_length |-> <<A, B>>,
                    vertical_drift |-> AbsoluteDrift(pose),
                    nihss_motor_score |-> nihss_result.nihss_motor_score,
                    nihss_total |-> nihss_result.nihss_total,
                    severity |-> nihss_result.severity,
                    clinical_interpretation |-> nihss_result.clinical_interpretation,
                    error |-> "None"])
        Graded(pose, A, B, asymmetry_score) ==
            Result(pose, A, B, asymmetry_score,
                   KeypointFixed_calculate_nihss_motor_score(asymmetry_score))
        Measured(pose, A, B) == Graded(pose, A, B, NormalizedScore(pose, A, B, ZeroScore))
        Checked(req) ==
            IF req = "AttributeError" THEN Raise("AttributeError")
            ELSE IF req = "missing" THEN Return(AnalysisError("Missing required keypoints"))
            ELSE IF ~AllYNumbers(payload) THEN Raise("TypeError")
            ELSE Measured(payload.pose, LeftArmSq(payload.pose), RightArmSq(payload.pose))
    IN  Checked(RequiredKeypoints(payload, 1))

\* analyze_keypoint_asymmetry: try ... except Exception as e: return {'error': str(e), ...}
KeypointFixed_analyze_keypoint_asymmetry(payload) ==
    LET Except(r) == IF Raised(r) THEN AnalysisError(r.raised) ELSE r.val
    IN  Except(KeypointFixed_AnalyzeTry(payload))

KeypointFixed_TryBlock(event) ==
    LET Respond(r) ==
            Return(Envelope(200,
              [drift_detected |-> r.drift_detected,
               asymmetry_score |-> r.asymmetry_score,
               asymmetry_percent |-> r.asymmetry_percent,
               y_difference |-> r.asymmetry_score,
               clinical_score |-> r.nihss_motor_score,
               nihss_motor_score |-> r.nihss_motor_score,
               nihss_total |-> r.nihss_total,
               severity |-> r.severity,
               message |-> r.clinical_interpretation,
               clinical_interpretation |-> r.clinical_interpretation,
               test_quality |-> "keypoint_analysis",
               research_based |-> TRUE,
               clinical_standards |-> "NIHSS_Motor_Arm_Item5",
               analysis_method |-> "euclidean_distance",
               left_arm_length |-> r.left_arm_length,
               right_arm_length |-> r.right_arm_length,
               avg_arm_length |-> r.avg_arm_length,
               vertical_drift |-> r.vertical_drift]))
        Analysed(payload, analysis) ==
            IF analysis.error # "None"
            THEN Return(Envelope(400, ErrorBody400(analysis.error)))
            ELSE Respond(ApplyForceDrift(payload, analysis))
        Parsed(body) ==
            IF Raised(body) THEN body
            ELSE IF body.val.type # "dict" THEN Raise("AttributeError")
            ELSE IF KeypointsType(body.val.payload) = "list" THEN Raise("AttributeError")
            ELSE Analysed(body.val.payload,
                          KeypointFixed_analyze_keypoint_asymmetry(body.val.payload))
    IN  Parsed(ParseBodyOrEvent(event))

KeypointFixed_lambda_handler(event) ==
    LET Except(block) == TryExcept(block, ExceptionTypes, ErrorBody500(block.raised))
    IN  Except(KeypointFixed_TryBlock(event))

\* ==================================================== lambda_fast_enhanced
Fast_NIHSS_0_NORMAL == 15
Fast_NIHSS_1_MILD == 25
Fast_NIHSS_2_MODERATE == 40
Fast_NIHSS_3_SEVERE == 60

\* the first exception of  keypoints[name]['y']  for the four names and of the
\* subtractions that follow
Fast_ExtractError(payload) ==
    LET RECURSIVE At(_)
        At(i) ==
            IF i > 4 THEN "none"
            ELSE IF KeypointsType(payload) = "list" THEN "TypeError"
            ELSE IF ~KpPresent(payload, KP[i]) THEN "KeyError"
            ELSE IF ~KpIsDict(payload, KP[i]) THEN "TypeError"
            ELSE IF ~KpHasY(payload, KP[i]) THEN "KeyError"
            ELSE At(i + 1)
    IN  IF At(1) # "none" THEN At(1)
        ELSE IF ~AllYNumbers(payload) THEN "TypeError"
        ELSE "none"

\* the asymmetry of the vertical arm lengths, 0.0 if avg_arm_length < 0.01, of
\* the keypoints whose y are those of the pose divided by shrink (the lengths
\* are 1/shrink of the pose's, the quotient of drift and length is the pose's)
Fast_asymmetry_score_scaled(pose, shrink) ==
    LET L == LeftArmV(pose)
        R == RightArmV(pose)
    IN  IF AvgLenLT(L * L, R * R, shrink, 100) THEN ZeroScore
        ELSE MkScore(2 * VerticalDrift(pose), L * L, R * R)

Fast_asymmetry_score(pose) == Fast_asymmetry_score_scaled(pose, 1)

\* an analysis that gives up, with a score of 0.0, once the clock has advanced
Fast_analyze_within_time_budget(payload, elapsed) ==
    [asymmetry_score |-> IF elapsed > 0 \/ Fast_ExtractError(payload) # "none"
                         THEN ZeroScore ELSE Fast_asymmetry_score(payload.pose),
     analysis_time |-> elapsed,
     error |-> IF Fast_ExtractError(payload) # "none" THEN Fast_ExtractError(payload) ELSE "None"]

Fast_analyze_drift_from_keypoints(payload, elapsed) ==
    LET e == Fast_ExtractError(payload)
    IN  IF e # "none"
        THEN [asymmetry_score |-> ZeroScore, analysis_time |-> elapsed, error |-> e]
        ELSE [asymmetry_score |-> Fast_asymmetry_score(payload.pose),
              analysis_time |-> elapsed, error |-> "None"]

Fast_calculate_fast_nihss_score(asymmetry_score, keypoints_detected) ==
    LET Result(base) ==
            [nihss_motor_score |-> base[1], severity |-> base[2], message |-> base[3],
             test_quality |-> IF keypoints_detected < 4 THEN "poor_calibration_analysis"
                              ELSE IF keypoints_detected < 8 THEN "good_calibration_analysis"
                              ELSE "excellent_calibration_analysis",
             drift_detected |-> base[1] > 0]
    IN  Result(
            IF ScoreLT(asymmetry_score, Fast_NIHSS_0_NORMAL, 100)
            THEN <<0, "normal", "Normal Results - No significant arm drift detected.">>
            ELSE IF ScoreLT(asymmetry_score, Fast_NIHSS_1_MILD, 100)
            THEN <<1, "mild", "Mild Drift Detected - Slight downward movement of one arm observed.">>
            ELSE IF ScoreLT(asymmetry_score, Fast_NIHSS_2_MODERATE, 100)
            THEN <<2, "moderate", "Moderate Drift Detected - Noticeable downward movement of one arm.">>
            ELSE IF ScoreLT(asymmetry_score, Fast_NIHSS_3_SEVERE, 100)
            THEN <<3, "severe", "Severe Drift Detected - Significant downward movement of one arm.">>
            ELSE <<4, "critical", "CRITICAL - Extreme drift detected, arm may have hit bed or lap.">>)

Fast_create_error_response(error_message) ==
    Envelope(500, [error |-> error_message, drift_detected |-> FALSE,
                   nihss_motor_score |-> 0, severity |-> "error"])

Fast_TryBlock(event, elapsed) ==
    LET Respond(analysis_result, nihss_result) ==
            IF analysis_result.error # "None"
            THEN Return(Fast_create_error_response(analysis_result.error))
            ELSE Return(Envelope(200,
                   [drift_detected |-> nihss_result.drift_detected,
                    asymmetry_score |-> analysis_result.asymmetry_score,
                    nihss_motor_score |-> nihss_result.nihss_motor_score,
                    severity |-> nihss_result.severity,
                    message |-> nihss_result.message,
                    test_quality |-> nihss_result.test_quality,
                    research_based |-> TRUE,
                    clinical_standards |-> "NIHSS_Motor_Arm_Item5",
                    analysis_method |-> "normalized_keypoint_drift_v3",
                    analysis_time_seconds |-> analysis_result.analysis_time,
                    total_runtime_seconds |-> elapsed,
                    version |-> "real_world_adjusted_thresholds_v4"]))
        Analysed(payload, analysis_result) ==
            Respond(analysis_result,
                    Fast_calculate_fast_nihss_score(analysis_result.asymmetry_score,
                                                    KeypointsLen(payload)))
        Parsed(body) ==
            IF Raised(body) THEN body
            ELSE IF body.val.type # "dict" THEN Raise("AttributeError")
            ELSE IF event.shape \in {"body_obj", "body_null"}
                    \/ KeypointsType(body.val.payload) = "empty_dict"
            THEN Return(Fast_create_error_response("Request body must contain a 'keypoints' object."))
            ELSE Analysed(body.val.payload,
                          Fast_analyze_drift_from_keypoints(body.val.payload, elapsed))
    IN  IF event.shape = "not_dict" THEN Raise("AttributeError")
        ELSE Parsed(IF event.shape \in {"body_str", "body_bad_json", "body_json_list"}
                    THEN JsonLoadsBody(event)
                    ELSE Return([type |-> "dict", payload |-> event.payload]))

Fast_UnexpectedError(e) ==
    [error |-> e, drift_detected |-> FALSE, nihss_motor_score |-> 0, severity |-> "error"]

Fast_lambda_handler(event, elapsed) ==
    LET Except(block) == TryExcept(block, ExceptionTypes, Fast_UnexpectedError(block.raised))
    IN  Except(Fast_TryBlock(event, elapsed))

\* ============================================================ lambda_fixed
\* drift is a y difference above 5% of the frame height
DRIFT_THRESHOLD == 5

Fixed_TryBlock(event) ==
    CASE event.shape = "not_dict" -> Raise("TypeError")
      [] event.shape = "direct" -> Raise("KeyError")
      [] event.shape \in {"body_obj", "body_null"} -> Raise("TypeError")
      [] event.shape = "body_bad_json" -> Raise("JSONDecodeError")
      [] event.shape = "body_json_list" -> Raise("AttributeError")
      [] OTHER ->
          LET arm == event.payload.arm_y
              left_arm_y == IF arm.present THEN arm.left ELSE 0
              right_arm_y == IF arm.present THEN arm.right ELSE 0
              y_difference == Abs(left_arm_y - right_arm_y)
              drift_detected == 100 * y_difference > DRIFT_THRESHOLD * Grid
          IN  Return(Envelope(200,
                [drift_detected |-> drift_detected,
                 y_difference |-> RatScore(y_difference, Grid),
                 left_arm_y |-> left_arm_y,
                 right_arm_y |-> right_arm_y,
                 message |-> IF drift_detected THEN "Drift detected!" ELSE "No drift detected."]))

Fixed_ErrorBody(e) == [error |-> e, drift_detected |-> FALSE]

Fixed_lambda_handler(event) ==
    LET Except(block) == TryExcept(block, ExceptionTypes, Fixed_ErrorBody(block.raised))
    IN  Except(Fixed_TryBlock(event))


\* ======================================================= lambda_full_nihss
MaxSnapshots == 2   \* longest keypoints_history of a request
MaxTimestamp == 1   \* snapshot timestamps are 0..MaxTimestamp (units of 5 s)

\* rationals n/d, d > 0, for the purely vertical asymmetries of this Lambda
Rat(n, d) == [n |-> n, d |-> d]
RatZero == Rat(0, 1)
RatLT(r, p, q) == r.n * q < p * r.d
RatGT(r, p, q) == r.n * q > p * r.d
RatGE(r, p, q) == r.n * q >= p * r.d
RatLess(r, s) == r.n * s.d < s.n * r.d

\* the left arm stays up, the right wrist is anywhere between it and the shoulder
NihssPoses ==
    { MkPose(Point(0, MaxY), Point(0, ry), Point(0, 0), Point(0, 0)) : ry \in 0..MaxY }

Snapshot(t, pose, ok) == [timestamp |-> t, keypoints |-> pose, wellFormed |-> ok]

Snapshots ==
    { Snapshot(t, p, TRUE) : t \in 0..MaxTimestamp, p \in NihssPoses }
    \cup { Snapshot(0, MkPose(Point(0, 0), Point(0, 0), Point(0, 0), Point(0, 0)), FALSE) }

HistoriesUpTo(n) == UNION { [1..k -> Snapshots] : k \in 0..n }

\* test_duration in tenths of a second
Durations == {90, 100}

NihssPayload(h, d, e) ==
    [pose |-> MkPose(Point(0, 0), Point(0, 0), Point(0, 0), Point(0, 0)),
     defect |-> [kind |-> "no_keypoints", kp |-> "left_wrist"],
     force_drift |-> FALSE, arm_y |-> NoArmY,
     keypoints_history |-> h, test_duration |-> d, eye_closed |-> e]

NihssEvent(h, d, e) == MkEvent("body_str", NihssPayload(h, d, e))

\* full-NIHSS requests in every event shape, with well-formed and malformed snapshots
NihssEnvelopeEvents ==
    LET good == Snapshot(1, MkPose(Point(0, MaxY), Point(0, MaxY - 1), Point(0, 0), Point(0, 0)), TRUE)
        bad == Snapshot(0, MkPose(Point(0, 0), Point(0, 0), Point(0, 0), Point(0, 0)), FALSE)
    IN  { MkEvent(s, NihssPayload(h, d, e)) :
            s \in EventShapes, h \in UNION { [1..n -> {good, bad}] : n \in 0..2 },
            d \in Durations, e \in BOOLEAN }

\* 80 <= calculate_arm_angle(wrist_y, shoulder_y) <= 100: the angle is
\* degrees(asin(min(d / 0.3, 1.0))) <= 90 for the vertical distance d, and it is
\* at least 80 when d >= 0.3 * sin(80 deg) = 0.29544232...
Nihss_arm_angle_in_range(wrist_y, shoulder_y) ==
    IF wrist_y = shoulder_y THEN FALSE
    ELSE Abs(wrist_y - shoulder_y) * 10000000 >= 2954424 * Grid

\* asymmetry of one snapshot
Nihss_asymmetry(pose) ==
    LET L == LeftArmV(pose)
        R == RightArmV(pose)
    IN  IF AvgLenGT(L * L, R * R, 1, 100) THEN Rat(2 * VerticalDrift(pose), L + R)
        ELSE RatZero

NoProgression ==
    [initial_asymmetry |-> RatZero, final_asymmetry |-> RatZero, max_drift |-> RatZero,
     drift_progression |-> <<>>, hits_support |-> FALSE, time_to_drift |-> 0]

RECURSIVE Nihss_progression(_, _)
\* the loop over keypoints_history: malformed snapshots are skipped
Nihss_progression(history, i) ==
    IF i > Len(history) THEN <<>>
    ELSE IF ~history[i].wellFormed THEN Nihss_progression(history, i + 1)
    ELSE <<[timestamp |-> history[i].timestamp,
            asymmetry |-> Nihss_asymmetry(history[i].keypoints)]>>
         \o Nihss_progression(history, i + 1)

RECURSIVE RatMaxOf(_, _)
RatMaxOf(points, i) ==
    IF i = Len(points) THEN points[i].asymmetry
    ELSE LET rest == RatMaxOf(points, i + 1)
         IN  IF RatLess(points[i].asymmetry, rest) THEN rest ELSE points[i].asymmetry

RECURSIVE Nihss_time_to_drift(_, _)
\* timestamp of the first point whose asymmetry exceeds 15%, else 0.0
Nihss_time_to_drift(points, i) ==
    IF i > Len(points) THEN 0
    ELSE IF RatGT(points[i].asymmetry, 15, 100) THEN points[i].timestamp
    ELSE Nihss_time_to_drift(points, i + 1)

Nihss_analyze_drift_progression(history) ==
    LET Summary(points) ==
            IF points = <<>> THEN NoProgression
            ELSE [initial_asymmetry |-> points[1].asymmetry,
                  final_asymmetry |-> points[Len(points)].asymmetry,
                  max_drift |-> RatMaxOf(points, 1),
                  drift_progression |-> points,
                  hits_support |-> RatGT(points[Len(points)].asymmetry, 5, 10),
                  time_to_drift |-> Nihss_time_to_drift(points, 1)]
    IN  IF Len(history) < 2 THEN NoProgression
        ELSE Summary(Nihss_progression(history, 1))

NihssInvalid(text, interpretation) ==
    [nihss_score |-> 0, error |-> text, clinical_interpretation |-> interpretation]
NihssScore(score, severity, drift, interpretation) ==
    [nihss_score |-> score, severity |-> severity, drift_detected |-> drift,
     clinical_interpretation |-> interpretation, message |-> interpretation,
     test_quality |-> "nihss_compliant_analysis", error |-> "None"]

Nihss_calculate_nihss_score(drift_analysis, arm_angles, eye_closed, test_duration) ==
    IF ~eye_closed
    THEN NihssInvalid("Eyes must be closed for NIHSS test", "Test invalid - eyes not closed")
    ELSE IF test_duration < 95
    THEN NihssInvalid("Test must be at least 10 seconds", "Test invalid - insufficient duration")
    ELSE IF ~arm_angles.left_in_range \/ ~arm_angles.right_in_range
    THEN NihssInvalid("Arms not positioned at 90 degrees (NIHSS requirement)", "Test invalid - improper arm positioning")
    ELSE LET final_asymmetry == drift_analysis.final_asymmetry
             max_drift == drift_analysis.max_drift
             time_to_drift == drift_analysis.time_to_drift
             hits_support == drift_analysis.hits_support
         IN  IF RatLT(final_asymmetry, 5, 100) /\ RatLT(max_drift, 5, 100)
             THEN NihssScore(0, "normal", FALSE, "No drift - Normal motor function")
             ELSE IF RatLT(final_asymmetry, 30, 100) /\ ~hits_support /\ time_to_drift > 0
             THEN NihssScore(1, "mild", TRUE, "Mild drift - Slight weakness, monitor for other symptoms")
             ELSE IF hits_support /\ RatLT(final_asymmetry, 60, 100)
             THEN NihssScore(2, "moderate", TRUE, "Moderate drift - Noticeable weakness, medical evaluation recommended")
             ELSE IF hits_support /\ RatGE(final_asymmetry, 60, 100)
             THEN NihssScore(3, "severe", TRUE, "Severe drift - Significant weakness, urgent medical evaluation")
             ELSE IF RatLT(max_drift, 1, 100)
             THEN NihssScore(4, "critical", TRUE, "No movement - Severe paralysis, emergency medical care needed")
             ELSE NihssScore(2, "moderate", TRUE, "Moderate drift - Noticeable weakness, medical evaluation recommended")

\* the try block of analyze_full_nihss_motor_arm
Nihss_AnalyzeTry(history, test_duration, eye_closed) ==
    LET Result(arm_angles, drift_analysis, nihss_result) ==
            IF nihss_result.error # "None"
            THEN Return([error |-> nihss_result.error, nihss_score |-> 0])
            ELSE Return([error |-> "None", nihss_score |-> nihss_result.nihss_score,
                         severity |-> nihss_result.severity,
                         drift_detected |-> nihss_result.drift_detected,
                         clinical_interpretation |-> nihss_result.clinical_interpretation,
                         message |-> nihss_result.message,
                         test_quality |-> nihss_result.test_quality,
                         drift_analysis |-> drift_analysis, arm_angles |-> arm_angles,
                         test_duration |-> test_duration, eye_closed |-> eye_closed,
                         keypoints_snapshots |-> Len(history)])
        Graded(arm_angles, drift_analysis) ==
            Result(arm_angles, drift_analysis,
                   Nihss_calculate_nihss_score(drift_analysis, arm_angles, eye_closed, test_duration))
        ArmAngles(keypoints) ==
            [left_in_range |-> Nihss_arm_angle_in_range(keypoints.left_wrist.y, keypoints.left_shoulder.y),
             right_in_range |-> Nihss_arm_angle_in_range(keypoints.right_wrist.y, keypoints.right_shoulder.y),
             left_arm_angle |-> LeftArmV(keypoints),
             right_arm_angle |-> RightArmV(keypoints)]
    IN  IF history = <<>>
        THEN Return([error |-> "No keypoint data provided", nihss_score |-> 0])
        ELSE IF ~history[1].wellFormed THEN Raise("KeyError")
        ELSE Graded(ArmAngles(history[1].keypoints), Nihss_analyze_drift_progression(history))

\* analyze_full_nihss_motor_arm: except Exception: return {'error': 'Analysis failed: ...'}
Nihss_analyze_full_nihss_motor_arm(history, test_duration, eye_closed) ==
    LET Except(r) ==
            IF Raised(r) THEN [error |-> "Analysis failed", nihss_score |-> 0] ELSE r.val
    IN  Except(Nihss_AnalyzeTry(history, test_duration, eye_closed))

Nihss_ErrorBody(error_message) ==
    [error |-> error_message, drift_detected |-> FALSE, asymmetry_score |-> RatZero,
     nihss_motor_score |-> 0, severity |-> "error", message |-> "Analysis failed",
     test_quality |-> "error", research_based |-> FALSE,
     clinical_standards |-> "NIHSS_Error", analysis_method |-> "full_nihss_motor_arm_test",
     analysis_time_seconds |-> 0, total_runtime_seconds |-> 0, version |-> "full_nihss_v1"]

Nihss_create_error_response(error_message) == Envelope(500, Nihss_ErrorBody(error_message))

Nihss_TryBlock(event, elapsed) ==
    LET Respond(a) ==
            IF a.error # "None" THEN Return(Nihss_create_error_response(a.error))
            ELSE Return(Envelope(200,
                   [drift_detected |-> a.drift_detected,
                    asymmetry_score |-> a.drift_analysis.final_asymmetry,
                    nihss_motor_score |-> a.nihss_score,
                    severity |-> a.severity,
                    message |-> a.message,
                    test_quality |-> a.test_quality,
                    research_based |-> TRUE,
                    clinical_standards |-> "NIHSS_Motor_Arm_Item5_Full",
                    analysis_method |-> "full_nihss_motor_arm_test_v1",
                    analysis_time_seconds |-> elapsed,
                    total_runtime_seconds |-> elapsed,
                    version |-> "full_nihss_v1",
                    clinical_interpretation |-> a.clinical_interpretation,
                    test_duration |-> a.test_duration,
                    eye_closed |-> a.eye_closed,
                    keypoints_snapshots |-> a.keypoints_snapshots,
                    left_arm_angle |-> a.arm_angles.left_arm_angle,
                    right_arm_angle |-> a.arm_angles.right_arm_angle,
                    initial_asymmetry |-> a.drift_analysis.initial_asymmetry,
                    max_drift |-> a.drift_analysis.max_drift,
                    time_to_drift |-> a.drift_analysis.time_to_drift,
                    hits_support |-> a.drift_analysis.hits_support]))
        Extracted(payload) ==
            Respond(Nihss_analyze_full_nihss_motor_arm(
                        payload.keypoints_history, payload.test_duration, payload.eye_closed))
        Parsed(body) ==
            IF Raised(body) THEN body
            ELSE IF body.val.type # "dict" THEN Raise("AttributeError")
            ELSE Extracted(body.val.payload)
    IN  IF event.shape = "not_dict" THEN Raise("AttributeError")
        ELSE Parsed(
               CASE event.shape \in {"body_str", "body_bad_json", "body_json_list"} -> JsonLoadsBody(event)
                 [] event.shape = "body_null" -> Return([type |-> "None", payload |-> event.payload])
                 [] event.shape = "direct" -> Return([type |-> "dict", payload |-> NihssPayload(<<>>, 0, FALSE)])
                 [] OTHER -> Return([type |-> "dict", payload |-> event.payload]))

Nihss_lambda_handler(event, elapsed) ==
    LET Except(block) == TryExcept(block, ExceptionTypes, Nihss_ErrorBody(block.raised))
    IN  Except(Nihss_TryBlock(event, elapsed))


\* ------------------------------------------- exceptions raised on the way
\* handler: the exception that reached lambda_handler's except clause
\* inner:   the exception caught inside the analysis function
\* skipped: malformed snapshots skipped by analyze_drift_progression
Trace(h, i, k) == [handler |-> h, inner |-> i, skipped |-> k]

Robust_Trace(event) == Trace(Robust_TryBlock(event).raised, "none", 0)

KeypointFixed_Trace(event) ==
    LET Traced(block) ==
            Trace(block.raised,
                  IF Raised(block) THEN "none" ELSE KeypointFixed_AnalyzeTry(event.payload).raised,
                  0)
    IN  Traced(KeypointFixed_TryBlock(event))

Fast_Trace(event) ==
    LET Traced(block) ==
            Trace(block.raised,
                  IF Raised(block) \/ event.shape \in {"body_obj", "body_null"}
                     \/ KeypointsType(event.payload) = "empty_dict"
                  THEN "none" ELSE Fast_ExtractError(event.payload),
                  0)
    IN  Traced(Fast_TryBlock(event, 0))

Fixed_Trace(event) == Trace(Fixed_TryBlock(event).raised, "none", 0)

Nihss_Trace(event) ==
    LET Skipped(h) ==
            IF Len(h) < 2 THEN 0 ELSE Cardinality({i \in 1..Len(h) : ~h[i].wellFormed})
        Traced(block, h, r) ==
            IF Raised(block) THEN Trace(block.raised, "none", 0)
            ELSE IF Raised(r) THEN Trace("none", r.raised, 0)
            ELSE Trace("none", "none", Skipped(h))
        Analysed(h) ==
            Traced(Nihss_TryBlock(event, 0), h,
                   Nihss_AnalyzeTry(h, event.payload.test_duration, event.payload.eye_closed))
    IN  Analysed(IF event.shape = "direct" THEN <<>> ELSE event.payload.keypoints_history)

\* ==================================================== robust_asymmetry_calculation.py
\* calculate_robust_asymmetry of the script: the six methods and the
\* recommendation.  The quotients |l - r| / max(l, r) of lines 62 and 99 are
\* taken without a guard.  Of the result, confidence_weighted and combined,
\* further quotients of the same lengths, are not kept.
Script_calculate_robust_asymmetry(pose) ==
    LET Result(A, B, drift, current, poor) ==
            Return([current |-> current,
                    absolute |-> AbsoluteDrift(pose),
                    body_relative |->
                        IF 100 * Abs(pose.left_shoulder.x - pose.right_shoulder.x) > Grid
                        THEN RatScore(drift, Abs(pose.left_shoulder.x - pose.right_shoulder.x))
                        ELSE ZeroScore,
                    threshold_based |-> IF 100 * drift > 5 * Grid THEN 1 ELSE 0,
                    recommended_method |-> IF poor THEN "absolute" ELSE "current",
                    recommended_value |-> IF poor THEN AbsoluteDrift(pose) ELSE current,
                    detection_quality |-> IF poor THEN "poor" ELSE "good"])
        Measured(A, B) ==
            IF Max(A, B) = 0 THEN Raise("ZeroDivisionError")
            ELSE Result(A, B, VerticalDrift(pose), NormalizedScore(pose, A, B, ZeroScore),
                        ArmLengthDiffGT(A, B, 5, 10) \/ AvgLenLT(A, B, 5, 100))
    IN  Measured(LeftArmSq(pose), RightArmSq(pose))

\* ==================================================== the multi-frame Lambdas
\* lambda_enhanced_standalone, lambda_enhanced_frame_analysis and
\* lambda_standalone_video_analysis score a sequence of camera frames.  A frame
\* is represented by whether its base64 text decodes and by the asymmetry (in
\* percent) that the byte analysis gives its image.  The reading of time.time()
\* in add_frame is an input of the invocation: the whole seconds since the
\* reading of the frame before.  lambda_enhanced_frame_analysis is
\* lambda_enhanced_standalone with numpy, statement for statement, and is
\* modelled by the same operators.  Of the response body the scoring fields
\* are kept; the constant fields and the echoed measurements are left out.
MaxFrames == 5   \* longest frame sequence of a request

FrameAsymmetries == {0, 2, 6, 20}
FrameTicks == {0, 1}

Frame(ok, a) == [decodes |-> ok, asymmetry |-> a]
FrameValues == {Frame(TRUE, a) : a \in FrameAsymmetries} \cup {Frame(FALSE, 0)}
FrameSeqsUpTo(n) == UNION {[1..k -> FrameValues] : k \in 0..n}

MkFrameEvent(shape, kind, frames) == [shape |-> shape, kind |-> kind, frames |-> frames]

\* requests with 'frames', with 'image_base64', and with neither
FrameEvents(n) ==
    {MkFrameEvent(s, "frames", f) : s \in {"body_str", "direct"}, f \in FrameSeqsUpTo(n)}
    \cup {MkFrameEvent(s, "image", f) : s \in {"body_str", "direct"}, f \in FrameSeqsUpTo(1)}
    \cup {MkFrameEvent(s, "neither", <<>>) :
            s \in {"body_str", "direct", "body_obj", "body_bad_json"}}

\* base64.b64decode(frame_data) succeeded
Decodes(frame) == frame.decodes

RECURSIVE SumTo(_, _)
SumTo(f, i) == IF i = 0 THEN 0 ELSE f[i] + SumTo(f, i - 1)

\* timestamps[i] - timestamps[0]
RECURSIVE Since(_, _)
Since(ticks, i) == IF i <= 1 THEN 0 ELSE ticks[i] + Since(ticks, i - 1)

Enhanced_NIHSS_0_NORMAL == 1
Enhanced_NIHSS_1_MILD == 3
Enhanced_NIHSS_2_MODERATE == 8
Enhanced_NIHSS_3_SEVERE == 15
DRIFT_VELOCITY_THRESHOLD == 2

Video_NIHSS_0_NORMAL == 1
Video_NIHSS_1_MILD == 3
Video_NIHSS_2_MODERATE == 8
Video_NIHSS_3_SEVERE == 15

\* the if/elif ladder on an asymmetry a (a rational)
FrameLadder(a, t0, t1, t2, t3) ==
    IF RatLT(a, t0, 100) THEN [nihss_motor_score |-> 0, severity |-> "normal"]
    ELSE IF RatLT(a, t1, 100) THEN [nihss_motor_score |-> 1, severity |-> "mild"]
    ELSE IF RatLT(a, t2, 100) THEN [nihss_motor_score |-> 2, severity |-> "moderate"]
    ELSE IF RatLT(a, t3, 100) THEN [nihss_motor_score |-> 3, severity |-> "severe"]
    ELSE [nihss_motor_score |-> 4, severity |-> "critical"]

\* base_score = min(base_score + 1, 4); severity is left as the ladder set it
RaiseScore(r, cond) ==
    IF cond THEN [r EXCEPT !.nihss_motor_score = Min(@ + 1, 4)] ELSE r

\* sum(velocities) / len(velocities); a velocity is the change of asymmetry
\* over dt, and 0.0 when dt <= 0 (dt is 0 or 1 here, so the quotient is exact)
Enhanced_mean_velocity(scores, ticks) ==
    LET n == Len(scores)
        velocity == [i \in 1..(n - 1) |->
                        IF ticks[i + 1] <= 0 THEN 0
                        ELSE (scores[i + 1] - scores[i]) \div ticks[i + 1]]
    IN  IF n < 2 THEN RatZero ELSE Rat(SumTo(velocity, n - 1), 100 * (n - 1))

\* the slope of the regression line of the scores over the timestamps; 0.0
\* when the denominator vanishes (lambda_enhanced_frame_analysis divides and
\* gets nan, which compares like 0.0 below)
Enhanced_calculate_drift_trend(scores, ticks) ==
    LET n == Len(scores)
        x == [i \in 1..n |-> Since(ticks, i)]
        xy == [i \in 1..n |-> x[i] * scores[i]]
        x2 == [i \in 1..n |-> x[i] * x[i]]
        Slope(sum_x, sum_y, sum_xy, sum_x2) ==
            IF n * sum_x2 - sum_x * sum_x = 0 THEN RatZero
            ELSE Rat(n * sum_xy - sum_x * sum_y, 100 * (n * sum_x2 - sum_x * sum_x))
    IN  IF n < 3 THEN RatZero
        ELSE Slope(SumTo(x, n), SumTo(scores, n), SumTo(xy, n), SumTo(x2, n))

\* stability_score of _assess_stability for fewer than 10 scores, which every
\* sequence of at most MaxFrames frames has
Enhanced_assess_stability(scores) == RatZero

Enhanced_calculate_nihss_temporal(mean_asymmetry, drift_trend, mean_velocity, stability_score) ==
    LET Stability(r) == RaiseScore(r, RatLT(stability_score, 5, 10))
        Velocity(r) ==
            Stability(RaiseScore(r, RatGT(Rat(Abs(mean_velocity.n), mean_velocity.d),
                                          DRIFT_VELOCITY_THRESHOLD, 100)))
        Trend(r) == Velocity(RaiseScore(r, RatGT(drift_trend, 1, 100)))
    IN  Trend(FrameLadder(mean_asymmetry, Enhanced_NIHSS_0_NORMAL, Enhanced_NIHSS_1_MILD,
                          Enhanced_NIHSS_2_MODERATE, Enhanced_NIHSS_3_SEVERE))

\* drift_severity of the response generators
DriftSeverity(nihss_score) ==
    CASE nihss_score = 0 -> "none"
      [] nihss_score = 1 -> "mild"
      [] nihss_score = 2 -> "moderate"
      [] nihss_score = 3 -> "severe"
      [] OTHER -> "critical"

FrameResponse(nihss_result, y_difference, method, count) ==
    [drift_detected |-> nihss_result.nihss_motor_score > 0,
     y_difference |-> y_difference,
     clinical_score |-> nihss_result.nihss_motor_score,
     severity |-> nihss_result.severity,
     nihss_motor_score |-> nihss_result.nihss_motor_score,
     nihss_total |-> nihss_result.nihss_motor_score,
     drift_severity |-> DriftSeverity(nihss_result.nihss_motor_score),
     analysis_method |-> method,
     frames_analyzed |-> count]

Frames_create_error_response(error_message) ==
    Envelope(500, [error |-> error_message, drift_detected |-> FALSE,
                   clinical_score |-> 0, severity |-> "error"])

\* the request body: json.loads(event['body']) if it is a string, else the event
FrameBody(event) ==
    CASE event.shape = "body_bad_json" -> Raise("JSONDecodeError")
      [] event.shape = "body_obj" -> Return(MkFrameEvent("direct", "neither", <<>>))
      [] OTHER -> Return(event)

Enhanced_handle_frame_sequence(frames, ticks) ==
    LET Analysed(scores) ==
            LET n == Len(scores)
                mean == Rat(SumTo(scores, n), 100 * n)
            IN  Envelope(200,
                    FrameResponse(
                        Enhanced_calculate_nihss_temporal(
                            mean, Enhanced_calculate_drift_trend(scores, ticks),
                            Enhanced_mean_velocity(scores, ticks),
                            Enhanced_assess_stability(scores)),
                        mean, "enhanced_frame_by_frame", n))
        Buffered(decoded) ==
            IF Len(decoded) < 5
            THEN Frames_create_error_response("Temporal analysis failed")
            ELSE Analysed([i \in 1..Len(decoded) |-> decoded[i].asymmetry])
    IN  IF frames = <<>> THEN Frames_create_error_response("No video frames provided")
        ELSE Buffered(SelectSeq(frames, Decodes))

Enhanced_handle_single_frame_enhanced(frames) ==
    IF frames = <<>> THEN Frames_create_error_response("No image data provided")
    ELSE IF ~frames[1].decodes
    THEN Frames_create_error_response("Single frame enhanced analysis error")
    ELSE Envelope(200,
             FrameResponse(
                 FrameLadder(Rat(frames[1].asymmetry, 100), Enhanced_NIHSS_0_NORMAL,
                             Enhanced_NIHSS_1_MILD, Enhanced_NIHSS_2_MODERATE,
                             Enhanced_NIHSS_3_SEVERE),
                 Rat(frames[1].asymmetry, 100), "enhanced_single_frame", 1))

Enhanced_lambda_handler(event, ticks) ==
    LET Parsed(body) ==
            IF Raised(body) THEN Frames_create_error_response("Lambda error")
            ELSE IF body.val.kind = "frames"
            THEN Enhanced_handle_frame_sequence(body.val.frames, ticks)
            ELSE IF body.val.kind = "image"
            THEN Enhanced_handle_single_frame_enhanced(body.val.frames)
            ELSE Frames_create_error_response("Invalid event format")
    IN  Parsed(FrameBody(event))

\* second_avg - first_avg of the two halves of the scores
Video_calculate_trend(scores) ==
    LET n == Len(scores)
        h == n \div 2
        Halves(first, all) ==
            IF h = 0 THEN Rat(all, 100 * n)
            ELSE Rat((all - first) * h - first * (n - h), 100 * h * (n - h))
    IN  IF n < 2 THEN RatZero ELSE Halves(SumTo(scores, h), SumTo(scores, n))

Video_calculate_nihss_score(mean_asymmetry, drift_trend) ==
    RaiseScore(FrameLadder(mean_asymmetry, Video_NIHSS_0_NORMAL, Video_NIHSS_1_MILD,
                           Video_NIHSS_2_MODERATE, Video_NIHSS_3_SEVERE),
               RatGT(drift_trend, 1, 100))

Video_handle_video_analysis(frames) ==
    LET Analysed(scores) ==
            LET n == Len(scores)
                mean == Rat(SumTo(scores, n), 100 * n)
            IN  Envelope(200,
                    FrameResponse(
                        Video_calculate_nihss_score(mean, Video_calculate_trend(scores)),
                        mean, "temporal_video_analysis", n))
        Buffered(decoded) ==
            IF Len(decoded) < 3
            THEN Envelope(200,
                     FrameResponse([nihss_motor_score |-> 0, severity |-> "normal"],
                                   RatZero, "temporal_video_analysis", 0))
            ELSE Analysed([i \in 1..Len(decoded) |-> decoded[i].asymmetry])
    IN  IF frames = <<>> THEN Frames_create_error_response("No video frames provided")
        ELSE Buffered(SelectSeq(frames, Decodes))

Video_handle_single_frame(frames) ==
    IF frames = <<>> THEN Frames_create_error_response("No image data provided")
    ELSE IF ~frames[1].decodes
    THEN Frames_create_error_response("Single frame analysis error")
    ELSE Envelope(200,
             FrameResponse(
                 FrameLadder(Rat(frames[1].asymmetry, 100), Video_NIHSS_0_NORMAL,
                             Video_NIHSS_1_MILD, Video_NIHSS_2_MODERATE,
                             Video_NIHSS_3_SEVERE),
                 Rat(frames[1].asymmetry, 100), "single_frame", 1))

Video_lambda_handler(event) ==
    LET Parsed(body) ==
            IF Raised(body) THEN Frames_create_error_response("Lambda error")
            ELSE IF body.val.kind = "frames"
            THEN Video_handle_video_analysis(body.val.frames)
            ELSE IF body.val.kind = "image"
            THEN Video_handle_single_frame(body.val.frames)
            ELSE Frames_create_error_response("Invalid event format")
    IN  Parsed(FrameBody(event))

\* what the handlers of the multi-frame Lambdas caught while they ran
Frames_Trace(event) ==
    Trace(IF event.shape = "body_bad_json" THEN "JSONDecodeError" ELSE "none",
          IF event.kind = "image" /\ event.frames # <<>> /\ ~event.frames[1].decodes
          THEN "binascii.Error" ELSE "none",
          IF event.kind = "frames"
          THEN Len(event.frames) - Len(SelectSeq(event.frames, Decodes)) ELSE 0)

\* ============================================================ the service
VARIABLES
    fn,            \* the Lambda variant that serves the invocation
    event,         \* its event
    response,      \* what its lambda_handler returned
    trace,         \* the exceptions raised while it ran
    earlier,       \* the response the warm container gave this event before
    served,        \* invocations the warm container has served
    y_difference,  \* argument of calculate_nihss_motor_score, in percent
    nihss_result,  \* its result
    script,        \* the client script that runs
    pc,            \* where it is
    scenario,      \* index of the scenario its loop is at
    sent,          \* HTTP requests it has issued
    in_flight,     \* HTTP requests it is blocked on
    timeout,       \* the timeout of the request it is blocked on
    results        \* its results list

lambdaVars == <<fn, event, response, trace>>
warmVars == <<earlier, served>>
scoreVars == <<y_difference, nihss_result>>
clientVars == <<script, pc, scenario, sent, in_flight, timeout, results>>
vars == <<fn, event, response, trace, earlier, served, y_difference, nihss_result,
          script, pc, scenario, sent, in_flight, timeout, results>>

ZeroPose == MkPose(Point(0, 0), Point(0, 0), Point(0, 0), Point(0, 0))
NoEvent == MkEvent("direct", MkPayload(ZeroPose, NoDefect, FALSE, NoArmY))
NoResponse == Envelope(0, [none |-> TRUE])
NoResult == NihssResult(0, "none", "none")

KeypointLambdas ==
    {"lambda_robust_asymmetry", "lambda_keypoint_fixed", "lambda_fast_enhanced"}
LambdaNames == KeypointLambdas \cup {"lambda_fixed", "lambda_full_nihss"}

\* the events each Lambda is sent
EventsOf(name) ==
    CASE name = "lambda_fixed" -> ArmYEvents \cup EnvelopeEvents
      [] name = "lambda_full_nihss" -> NihssEnvelopeEvents
      [] OTHER -> EnvelopeEvents

NoWarm == earlier = NoResponse /\ served = 0
NoScore == y_difference = 0 /\ nihss_result = NoResult
NoClient ==
    /\ script = "none" /\ pc = "idle" /\ scenario = 0 /\ sent = 0
    /\ in_flight = 0 /\ timeout = 0 /\ results = <<>>
NoLambda ==
    /\ fn = "none" /\ event = NoEvent /\ response = NoResponse
    /\ trace = Trace("none", "none", 0)

\* API Gateway has an event for one of the Lambdas; nothing has run yet
Init ==
    /\ fn \in LambdaNames
    /\ event \in EventsOf(fn)
    /\ response = NoResponse
    /\ trace = Trace("none", "none", 0)
    /\ NoWarm /\ NoScore /\ NoClient

Pending(name) == fn = name /\ response = NoResponse /\ pc = "idle"

InvokeRobust ==
    /\ Pending("lambda_robust_asymmetry")
    /\ response' = Robust_lambda_handler(event)
    /\ trace' = Robust_Trace(event)
    /\ UNCHANGED <<fn, event, warmVars, scoreVars, clientVars>>

InvokeKeypointFixed ==
    /\ Pending("lambda_keypoint_fixed")
    /\ response' = KeypointFixed_lambda_handler(event)
    /\ trace' = KeypointFixed_Trace(event)
    /\ UNCHANGED <<fn, event, warmVars, scoreVars, clientVars>>

InvokeFastEnhanced ==
    /\ Pending("lambda_fast_enhanced")
    /\ \E elapsed \in 0..MaxElapsed :
           response' = Fast_lambda_handler(event, elapsed)
    /\ trace' = Fast_Trace(event)
    /\ UNCHANGED <<fn, event, warmVars, scoreVars, clientVars>>

InvokeFixed ==
    /\ Pending("lambda_fixed")
    /\ response' = Fixed_lambda_handler(event)
    /\ trace' = Fixed_Trace(event)
    /\ UNCHANGED <<fn, event, warmVars, scoreVars, clientVars>>

InvokeFullNihss ==
    /\ Pending("lambda_full_nihss")
    /\ \E elapsed \in 0..MaxElapsed :
           response' = Nihss_lambda_handler(event, elapsed)
    /\ trace' = Nihss_Trace(event)
    /\ UNCHANGED <<fn, event, warmVars, scoreVars, clientVars>>

Next ==
    \/ InvokeRobust
    \/ InvokeKeypointFixed
    \/ InvokeFastEnhanced
    \/ InvokeFixed
    \/ InvokeFullNihss

\* every Lambda variant, every event shape, well-formed and malformed requests
Spec == Init /\ [][Next]_vars

\* ---- the keypoint Lambdas on every well-formed pose of the grid
InitKeypoint ==
    /\ fn \in KeypointLambdas
    /\ \E p \in FinePoses : event = ScoringEvent(p)
    /\ response = NoResponse
    /\ trace = Trace("none", "none", 0)
    /\ NoWarm /\ NoScore /\ NoClient

NextKeypoint ==
    \/ InvokeRobust
    \/ InvokeKeypointFixed
    \/ InvokeFastEnhanced

SpecKeypoint == InitKeypoint /\ [][NextKeypoint]_vars

\* ---- lambda_robust_asymmetry on every pose of the grid, with and without
\* force_drift
InitRobust ==
    /\ fn = "lambda_robust_asymmetry"
    /\ \E p \in FinePoses, f \in BOOLEAN :
           event = MkEvent("body_str", MkPayload(p, NoDefect, f, NoArmY))
    /\ response = NoResponse
    /\ trace = Trace("none", "none", 0)
    /\ NoWarm /\ NoScore /\ NoClient

NextRobust == InvokeRobust

SpecRobust == InitRobust /\ [][NextRobust]_vars

\* ---- lambda_full_nihss on every keypoints_history of the grid
InitNihss ==
    /\ fn = "lambda_full_nihss"
    /\ \E h \in HistoriesUpTo(MaxSnapshots), d \in Durations, e \in BOOLEAN :
           event = NihssEvent(h, d, e)
    /\ response = NoResponse
    /\ trace = Trace("none", "none", 0)
    /\ NoWarm /\ NoScore /\ NoClient

NextNihss == InvokeFullNihss

SpecNihss == InitNihss /\ [][NextNihss]_vars

\* ---- calculate_nihss_motor_score applied to asymmetry values
MaxAsymmetry == 250   \* y_difference is k/100, k in 0..MaxAsymmetry

\* the float k/100
AsymmetryValue(k) == MkScore(k, 2500, 2500)

ScoreLambdas == {"lambda_robust_asymmetry", "lambda_keypoint_fixed"}

InitScore ==
    /\ fn \in ScoreLambdas
    /\ y_difference \in 0..MaxAsymmetry
    /\ nihss_result = NoResult
    /\ event = NoEvent /\ response = NoResponse /\ trace = Trace("none", "none", 0)
    /\ NoWarm /\ NoClient

ScoreRobust ==
    /\ fn = "lambda_robust_asymmetry" /\ nihss_result = NoResult /\ event = NoEvent
    /\ nihss_result' = Robust_calculate_nihss_motor_score(AsymmetryValue(y_difference))
    /\ UNCHANGED <<lambdaVars, warmVars, y_difference, clientVars>>

ScoreKeypointFixed ==
    /\ fn = "lambda_keypoint_fixed" /\ nihss_result = NoResult /\ event = NoEvent
    /\ nihss_result' = KeypointFixed_calculate_nihss_motor_score(AsymmetryValue(y_difference))
    /\ UNCHANGED <<lambdaVars, warmVars, y_difference, clientVars>>

NextScore ==
    \/ ScoreRobust
    \/ ScoreKeypointFixed

SpecScore == InitScore /\ [][NextScore]_vars

\* ---- a warm container that serves one event again and again
MaxInvocations == 3   \* invocations one container serves

PureEvents ==
    { MkEvent(s, MkPayload(p, d, FALSE, NoArmY)) :
        s \in {"body_str", "direct", "body_bad_json"}, p \in CoarsePoses,
        d \in {NoDefect, [kind |-> "drop_kp", kp |-> "right_wrist"],
                [kind |-> "y_string", kp |-> "left_wrist"]} }

\* events of other callers, served in between
OtherEvents ==
    { MkEvent(s, MkPayload(MkPose(Point(MaxX, MaxY), Point(0, MaxY - 1), Point(0, 0), Point(0, 0)),
                           NoDefect, f, NoArmY)) :
        s \in {"body_str", "body_bad_json"}, f \in BOOLEAN }

InitPure ==
    /\ fn \in KeypointLambdas
    /\ event \in PureEvents
    /\ response = NoResponse
    /\ trace = Trace("none", "none", 0)
    /\ earlier = NoResponse
    /\ served = 0
    /\ NoScore
    /\ script = "none" /\ pc = "warm" /\ scenario = 0 /\ sent = 0
    /\ in_flight = 0 /\ timeout = 0 /\ results = <<>>

Warm(name) == fn = name /\ pc = "warm" /\ served < MaxInvocations

\* the container serves the event once more
WarmRobust ==
    /\ Warm("lambda_robust_asymmetry")
    /\ response' = Robust_lambda_handler(event)
    /\ trace' = Robust_Trace(event)
    /\ earlier' = response
    /\ served' = served + 1
    /\ UNCHANGED <<fn, event, scoreVars, clientVars>>

WarmKeypointFixed ==
    /\ Warm("lambda_keypoint_fixed")
    /\ response' = KeypointFixed_lambda_handler(event)
    /\ trace' = KeypointFixed_Trace(event)
    /\ earlier' = response
    /\ served' = served + 1
    /\ UNCHANGED <<fn, event, scoreVars, clientVars>>

WarmFastEnhanced ==
    /\ Warm("lambda_fast_enhanced")
    /\ \E elapsed \in 0..MaxElapsed :
           response' = Fast_lambda_handler(event, elapsed)
    /\ trace' = Fast_Trace(event)
    /\ earlier' = response
    /\ served' = served + 1
    /\ UNCHANGED <<fn, event, scoreVars, clientVars>>

\* the container serves another caller's event; the handlers keep nothing of it
\* but what they logged
ServeOther ==
    /\ pc = "warm" /\ served < MaxInvocations
    /\ \E e \in OtherEvents :
           trace' = CASE fn = "lambda_robust_asymmetry" -> Robust_Trace(e)
                      [] fn = "lambda_keypoint_fixed" -> KeypointFixed_Trace(e)
                      [] OTHER -> Fast_Trace(e)
    /\ served' = served + 1
    /\ UNCHANGED <<fn, event, response, earlier, scoreVars, clientVars>>

NextPure ==
    \/ WarmRobust
    \/ WarmKeypointFixed
    \/ WarmFastEnhanced
    \/ ServeOther

SpecPure == InitPure /\ [][NextPure]_vars

\* ---- analyze_drift_from_keypoints and calculate_fast_nihss_score applied to
\* the poses of the grid scaled down
MaxShrink == 8   \* the y of the keypoints are divided by 1..MaxShrink

\* the scoring fields lambda_fast_enhanced gives the scaled keypoints
Fast_ScaledResult(pose, shrink) ==
    LET Graded(asymmetry_score, r) ==
            [shrink |-> shrink, asymmetry_score |-> asymmetry_score,
             nihss_motor_score |-> r.nihss_motor_score, severity |-> r.severity]
        Measured(asymmetry_score) ==
            Graded(asymmetry_score, Fast_calculate_fast_nihss_score(asymmetry_score, 4))
    IN  Measured(Fast_asymmetry_score_scaled(pose, shrink))

InitScale ==
    /\ fn = "lambda_fast_enhanced"
    /\ \E p \in FinePoses : event = ScoringEvent(p)
    /\ response = NoResponse
    /\ trace = Trace("none", "none", 0)
    /\ NoWarm /\ NoScore /\ NoClient

ScoreFastScaled ==
    /\ fn = "lambda_fast_enhanced" /\ nihss_result = NoResult
    /\ \E shrink \in 1..MaxShrink :
           nihss_result' = Fast_ScaledResult(event.payload.pose, shrink)
    /\ UNCHANGED <<lambdaVars, warmVars, y_difference, clientVars>>

NextScale == ScoreFastScaled

SpecScale == InitScale /\ [][NextScale]_vars

\* ---- the two quality assessments applied to the poses of the grid
QualityFunctions == {"robust_asymmetry_calculation", "lambda_robust_asymmetry"}

InitQuality ==
    /\ fn \in QualityFunctions
    /\ \E p \in FinePoses : event = ScoringEvent(p)
    /\ response = NoResponse
    /\ trace = Trace("none", "none", 0)
    /\ NoWarm /\ NoScore /\ NoClient

\* robust_asymmetry_calculation.calculate_robust_asymmetry(keypoints)
CalculateRobustAsymmetry ==
    /\ fn = "robust_asymmetry_calculation" /\ nihss_result = NoResult
    /\ LET Done(r) ==
               /\ nihss_result' = r.val
               /\ trace' = Trace(r.raised, "none", 0)
       IN  Done(Script_calculate_robust_asymmetry(event.payload.pose))
    /\ UNCHANGED <<fn, event, response, warmVars, y_difference, clientVars>>

\* lambda_robust_asymmetry.assess_keypoint_detection_quality(keypoints)
AssessQuality ==
    /\ fn = "lambda_robust_asymmetry" /\ nihss_result = NoResult
    /\ LET Done(r) ==
               /\ nihss_result' = r.val
               /\ trace' = Trace(r.raised, "none", 0)
       IN  Done(Robust_assess_keypoint_detection_quality(event.payload))
    /\ UNCHANGED <<fn, event, response, warmVars, y_difference, clientVars>>

NextQuality ==
    \/ CalculateRobustAsymmetry
    \/ AssessQuality

SpecQuality == InitQuality /\ [][NextQuality]_vars

\* ---- the client scripts
Scripts == {"test_calibrated_thresholds", "test_thresholds", "final_comprehensive_test"}

\* len(test_scenarios)
ScenarioCount(s) ==
    CASE s = "test_calibrated_thresholds" -> 6
      [] s = "test_thresholds" -> 6
      [] s = "final_comprehensive_test" -> 5
      [] OTHER -> 0

\* a request sent without timeout=
NoRequestTimeout(s) == 0
\* the timeout= argument of requests.post, in seconds
RequestTimeout(s) ==
    CASE s = "test_thresholds" -> 10
      [] OTHER -> 15

InitClient ==
    /\ script \in Scripts
    /\ pc = "loop"
    /\ scenario = 1
    /\ sent = 0 /\ in_flight = 0 /\ timeout = 0
    /\ results = <<>>
    /\ NoLambda /\ NoWarm /\ NoScore

\* requests.post(url, json=payload, timeout=...) for the scenario the loop is at
PostRequest ==
    /\ pc = "loop" /\ scenario <= ScenarioCount(script)
    /\ pc' = "blocked"
    /\ sent' = sent + 1
    /\ in_flight' = in_flight + 1
    /\ timeout' = RequestTimeout(script)
    /\ UNCHANGED <<script, scenario, results, lambdaVars, warmVars, scoreVars>>

NextScenario ==
    /\ pc' = "loop"
    /\ scenario' = scenario + 1
    /\ in_flight' = in_flight - 1
    /\ timeout' = 0
    /\ UNCHANGED <<script, sent, lambdaVars, warmVars, scoreVars>>

\* response.status_code == 200: the outcome of the comparison is appended
Response200 ==
    /\ pc = "blocked"
    /\ \E matches \in (IF script = "test_thresholds" THEN {TRUE} ELSE BOOLEAN) :
           results' = Append(results, matches)
    /\ NextScenario

\* any other status: False is appended (test_thresholds appends nothing)
ResponseError ==
    /\ pc = "blocked"
    /\ results' = IF script = "test_thresholds" THEN results ELSE Append(results, FALSE)
    /\ NextScenario

\* requests.post raised (the timeout expired, the connection failed)
RequestFailed ==
    /\ pc = "blocked"
    /\ results' = IF script = "test_thresholds" THEN results ELSE Append(results, FALSE)
    /\ NextScenario

\* the loop is over: the summary is printed
Summary ==
    /\ pc = "loop" /\ scenario > ScenarioCount(script)
    /\ pc' = "done"
    /\ UNCHANGED <<script, scenario, sent, in_flight, timeout, results,
                   lambdaVars, warmVars, scoreVars>>

NextClient ==
    \/ PostRequest
    \/ Response200
    \/ ResponseError
    \/ RequestFailed
    \/ Summary

SpecClient == InitClient /\ [][NextClient]_vars

\* ---- the multi-frame Lambdas on every frame sequence up to MaxFrames
FrameLambdas ==
    {"lambda_enhanced_standalone", "lambda_enhanced_frame_analysis",
     "lambda_standalone_video_analysis"}

InitFrames ==
    /\ fn \in FrameLambdas
    /\ event \in FrameEvents(MaxFrames)
    /\ response = NoResponse
    /\ trace = Trace("none", "none", 0)
    /\ NoWarm /\ NoScore /\ NoClient

InvokeEnhancedStandalone ==
    /\ Pending("lambda_enhanced_standalone")
    /\ \E ticks \in [1..MaxFrames -> FrameTicks] :
           response' = Enhanced_lambda_handler(event, ticks)
    /\ trace' = Frames_Trace(event)
    /\ UNCHANGED <<fn, event, warmVars, scoreVars, clientVars>>

InvokeEnhancedFrameAnalysis ==
    /\ Pending("lambda_enhanced_frame_analysis")
    /\ \E ticks \in [1..MaxFrames -> FrameTicks] :
           response' = Enhanced_lambda_handler(event, ticks)
    /\ trace' = Frames_Trace(event)
    /\ UNCHANGED <<fn, event, warmVars, scoreVars, clientVars>>

InvokeStandaloneVideo ==
    /\ Pending("lambda_standalone_video_analysis")
    /\ response' = Video_lambda_handler(event)
    /\ trace' = Frames_Trace(event)
    /\ UNCHANGED <<fn, event, warmVars, scoreVars, clientVars>>

NextFrames ==
    \/ InvokeEnhancedStandalone
    \/ InvokeEnhancedFrameAnalysis
    \/ InvokeStandaloneVideo

SpecFrames == InitFrames /\ [][NextFrames]_vars

\* ---- the client scripts reading one Lambda result from an HTTP 200 response
ReadingScripts == {"test_thresholds", "final_comprehensive_test", "deploy_improved_lambda"}

\* the two forms the HTTP 200 response of the API comes in
Deliveries == {"envelope", "bare"}

\* response.json(): the proxy envelope, or the result object itself
ResponseJson(delivery, envelope) ==
    IF delivery = "envelope" THEN envelope ELSE JsonLoads(envelope.body)

\* dict.get(key, default)
DictGet(dict, key, default) == IF key \in DOMAIN dict THEN dict[key] ELSE default

\* the JSON text '{}'
EmptyObject == JsonDumps(<<>>)

InitReading ==
    /\ fn \in {"lambda_robust_asymmetry", "lambda_keypoint_fixed"}
    /\ \E p \in CoarsePoses, f \in BOOLEAN :
           event = MkEvent("body_str", MkPayload(p, NoDefect, f, NoArmY))
    /\ response = NoResponse
    /\ trace = Trace("none", "none", 0)
    /\ NoWarm /\ NoScore
    /\ script \in ReadingScripts
    /\ pc = "idle" /\ scenario = 0 /\ sent = 0 /\ in_flight = 0 /\ timeout = 0
    /\ results = <<>>

\* the script has not yet been given the response in this form
Unread(delivery) ==
    /\ response # NoResponse /\ response.statusCode = 200
    /\ \A i \in DOMAIN results : results[i].delivery # delivery

\* test_thresholds.test_threshold_value, response.status_code == 200
ThresholdsRead200 ==
    /\ script = "test_thresholds"
    /\ \E delivery \in Deliveries :
           /\ Unread(delivery)
           /\ LET Returned(body_data) ==
                      [delivery |-> delivery,
                       drift_detected |-> DictGet(body_data, "drift_detected", FALSE),
                       y_difference |-> DictGet(body_data, "y_difference", 0),
                       severity |-> DictGet(body_data, "severity", "unknown")]
                  Parsed(result) == Returned(JsonLoads(DictGet(result, "body", EmptyObject)))
              IN  results' = Append(results, Parsed(ResponseJson(delivery, response)))
    /\ UNCHANGED <<lambdaVars, warmVars, scoreVars, script, pc, scenario, sent,
                   in_flight, timeout>>

\* final_comprehensive_test.comprehensive_test, response.status_code == 200
ComprehensiveRead200 ==
    /\ script = "final_comprehensive_test"
    /\ \E delivery \in Deliveries :
           /\ Unread(delivery)
           /\ LET Read(result) ==
                      [delivery |-> delivery,
                       severity |-> DictGet(result, "severity", "unknown"),
                       asymmetry_score |-> DictGet(result, "asymmetry_score", 0),
                       nihss_motor_score |-> DictGet(result, "nihss_motor_score", 0),
                       message |-> DictGet(result, "message", "N/A")]
                  Unwrapped(raw_response) ==
                      Read(IF "body" \in DOMAIN raw_response
                           THEN JsonLoads(raw_response.body) ELSE raw_response)
              IN  results' = Append(results, Unwrapped(ResponseJson(delivery, response)))
    /\ UNCHANGED <<lambdaVars, warmVars, scoreVars, script, pc, scenario, sent,
                   in_flight, timeout>>

\* deploy_improved_lambda.test_deployed_function, response.status_code == 200
DeployRead200 ==
    /\ script = "deploy_improved_lambda"
    /\ \E delivery \in Deliveries :
           /\ Unread(delivery)
           /\ LET Read(result) ==
                      [delivery |-> delivery,
                       severity |-> DictGet(result, "severity", "unknown"),
                       nihss_motor_score |-> DictGet(result, "nihss_motor_score", 0),
                       test_quality |-> DictGet(result, "test_quality", "unknown")]
                  Unwrapped(raw_response) ==
                      Read(IF "body" \in DOMAIN raw_response
                           THEN JsonLoads(raw_response.body) ELSE raw_response)
              IN  results' = Append(results, Unwrapped(ResponseJson(delivery, response)))
    /\ UNCHANGED <<lambdaVars, warmVars, scoreVars, script, pc, scenario, sent,
                   in_flight, timeout>>

NextReading ==
    \/ InvokeRobust
    \/ InvokeKeypointFixed
    \/ ThresholdsRead200
    \/ ComprehensiveRead200
    \/ DeployRead200

SpecReading == InitReading /\ [][NextReading]_vars

\* ------------------------------------------------------------ shorthands
Invoked == response # NoResponse
Status == response.statusCode
Body == JsonLoads(response.body)
HasField(f) == f \in DOMAIN Body
Pose == event.payload.pose
ExceptionRaised == trace.handler # "none" \/ trace.inner # "none" \/ trace.skipped > 0

TypeOK ==
    /\ fn \in LambdaNames \cup FrameLambdas \cup QualityFunctions \cup {"none"}
    /\ response.statusCode \in {0, 200, 400, 500}

\* =================================================================== C1
\* C1 as stated: every handler returns the {statusCode, headers, body}
\* envelope, lets no exception escape, and whenever an exception was raised
\* while the event was processed the statusCode is 500 and the body has an
\* 'error' field.
C1_AnyExceptionGives500 ==
    Invoked =>
        /\ response.escaped = "none"
        /\ DOMAIN response = {"escaped", "statusCode", "headers", "body"}
        /\ ExceptionRaised => Status = 500 /\ HasField("error")

\* C1 as the handlers behave: the envelope is always returned and no exception
\* escapes; an exception that reaches lambda_handler's own except clause gives
\* 500; one caught inside the analysis function gives 400 in
\* lambda_keypoint_fixed and 500 in lambda_fast_enhanced and lambda_full_nihss;
\* every response that is not 200 has an 'error' field; a malformed snapshot
\* that lambda_full_nihss skips changes neither.
C1_EnvelopeAlways ==
    Invoked =>
        /\ response.escaped = "none"
        /\ DOMAIN response = {"escaped", "statusCode", "headers", "body"}
        /\ Status \in {200, 400, 500}
        /\ trace.handler # "none" => Status = 500
        /\ trace.inner # "none" =>
               Status = IF fn = "lambda_keypoint_fixed" THEN 400 ELSE 500
        /\ Status # 200 => HasField("error")

\* lambda_keypoint_fixed answered 400 to an exception raised inside
\* analyze_keypoint_asymmetry
C1_Witness ==
    /\ Invoked
    /\ fn = "lambda_keypoint_fixed"
    /\ trace.inner \in {"TypeError", "AttributeError"}
    /\ Status = 400
    /\ HasField("error")

\* =================================================================== C4
ScoringFields ==
    {"drift_detected", "asymmetry_score", "nihss_motor_score", "severity", "message"}

\* C4: the body of every statusCode-200 response of every Lambda variant has
\* the fields drift_detected, asymmetry_score, nihss_motor_score, severity and
\* message.
C4_ScoringFieldsIn200 ==
    (Invoked /\ Status = 200) => ScoringFields \subseteq DOMAIN Body

EuclideanFormula(score, pose) ==
    /\ score.num = 2 * Abs(pose.left_wrist.y - pose.right_wrist.y)
    /\ score.sqA = SqDist(pose.left_wrist, pose.left_shoulder)
    /\ score.sqB = SqDist(pose.right_wrist, pose.right_shoulder)

CalibratedSeverity(asymmetry) ==
    IF ScoreLT(asymmetry, 3, 100) THEN "normal"
    ELSE IF ScoreLT(asymmetry, 10, 100) THEN "mild"
    ELSE IF ScoreLT(asymmetry, 20, 100) THEN "moderate"
    ELSE IF ScoreLT(asymmetry, 35, 100) THEN "severe"
    ELSE "critical"

\* C7: lambda_fast_enhanced classifies a pose by the calibrated thresholds of
\* the tests: normal below 3%, mild below 10%, moderate below 20%, severe
\* below 35%, critical from 35%.
C7_CalibratedThresholds ==
    (Invoked /\ fn = "lambda_fast_enhanced" /\ Status = 200) =>
        Body.severity = CalibratedSeverity(Body.asymmetry_score)

\* =================================================================== C8
\* C8 as stated: a pose with all four keypoints and equal wrist heights gets
\* 200 with asymmetry_score 0, severity normal, nihss_motor_score 0 and
\* drift_detected false from the keypoint Lambdas.
NoDriftResponse ==
    /\ Status = 200
    /\ ScoreIsZero(Body.asymmetry_score)
    /\ Body.severity = "normal"
    /\ Body.nihss_motor_score = 0
    /\ Body.drift_detected = FALSE

ArmsVeryUnequal(pose) ==
    LET A == SqDist(pose.left_wrist, pose.left_shoulder)
        B == SqDist(pose.right_wrist, pose.right_shoulder)
    IN  A + B = 0 \/ 25 * Min(A, B) < Max(A, B)

C10_DriftIffScorePositive ==
    (Invoked /\ fn \in KeypointLambdas /\ Status = 200) =>
        (Body.drift_detected <=> Body.nihss_motor_score > 0)

\* =================================================================== C3
\* the bucket the documented cutoffs give the asymmetry k/100
DocumentedBucket(k) ==
    IF k < 20 THEN <<0, "normal">>
    ELSE IF k < 35 THEN <<1, "mild">>
    ELSE IF k < 50 THEN <<2, "moderate">>
    ELSE IF k < 70 THEN <<3, "severe">>
    ELSE <<4, "critical">>

\* C3: calculate_nihss_motor_score of lambda_robust_asymmetry and of
\* lambda_keypoint_fixed puts every asymmetry a >= 0 in the bucket of the
\* documented cutoffs: normal/0 below 0.20, mild/1 below 0.35, moderate/2 below
\* 0.50, severe/3 below 0.70, critical/4 for every a >= 0.70.
C3_FiveBuckets ==
    nihss_result # NoResult =>
        <<nihss_result.nihss_motor_score, nihss_result.severity>>
            = DocumentedBucket(y_difference)

\* =================================================================== C5
\* what C5 compares of a response
Scored(r) ==
    LET b == JsonLoads(r.body)
        Field(f) == IF f \in DOMAIN b THEN <<f, b[f]>> ELSE <<f>>
    IN  <<r.escaped, r.statusCode, Field("drift_detected"), Field("asymmetry_score"),
          Field("nihss_motor_score"), Field("severity")>>

C6_OneRequestPerRun ==
    script \in Scripts =>
        /\ sent <= 1
        /\ in_flight > 0 => timeout > 0

\* C6 as the scripts behave: a run issues one blocking request per scenario of
\* its loop (6, 6 and 5 scenarios), one after the other, so never more than one
\* is in flight, and every request carries the script's fixed timeout of 10 or
\* 15 seconds.
C6_OneRequestAtATime ==
    script \in Scripts =>
        /\ in_flight \in {0, 1}
        /\ in_flight = 1 <=> pc = "blocked"
        /\ sent = scenario - 1 + in_flight
        /\ sent <= ScenarioCount(script) /\ sent <= 6
        /\ in_flight = 1 =>
               timeout = (IF script = "test_thresholds" THEN 10 ELSE 15)
        /\ pc = "done" => sent = ScenarioCount(script)

\* test_thresholds has finished after six requests
C6_Witness ==
    /\ script = "test_thresholds"
    /\ pc = "done"
    /\ sent = 6
    /\ Len(results) < 6

\* =================================================================== C9
\* the score the final asymmetry alone would give
ScoreOfFinalAsymmetry(final) ==
    IF RatLT(final, 5, 100) THEN 0
    ELSE IF RatLT(final, 30, 100) THEN 1
    ELSE IF RatLT(final, 60, 100) THEN 2
    ELSE 3

\* C9: for a valid full-NIHSS test (eyes closed, at least 10 seconds, both arms
\* at 90 degrees in the first snapshot) the nihss_motor_score of
\* lambda_full_nihss is determined by the final asymmetry alone: 0 below 5%,
\* 1 below 30%, 2 below 60%, 3 otherwise.
C9_ScoreFromFinalAsymmetry ==
    (Invoked /\ fn = "lambda_full_nihss" /\ Status = 200
       /\ event.payload.eye_closed /\ event.payload.test_duration >= 100) =>
        Body.nihss_motor_score = ScoreOfFinalAsymmetry(Body.asymmetry_score)

\* ================================================================== C11
\* the severity label that goes with a score
SeverityOfScore(score) ==
    CASE score = 0 -> "normal"
      [] score = 1 -> "mild"
      [] score = 2 -> "moderate"
      [] score = 3 -> "severe"
      [] OTHER -> "critical"

\* C11: in every statusCode-200 response of lambda_enhanced_standalone,
\* lambda_enhanced_frame_analysis and lambda_standalone_video_analysis the
\* severity label matches nihss_motor_score: 0 normal, 1 mild, 2 moderate,
\* 3 severe, 4 critical.
C11_SeverityMatchesScore ==
    (Invoked /\ fn \in FrameLambdas /\ Status = 200) =>
        Body.severity = SeverityOfScore(Body.nihss_motor_score)

\* ================================================================== C12
\* the payload reaches the handler as a JSON string in event['body'], as an
\* object in event['body'], or as the event itself
Delivered == event.shape \in {"body_str", "body_obj", "direct"}

\* the keypoints object lacks one of the four keypoints, or one lacks x or y
MissingKeypoint == event.payload.defect.kind \in {"drop_kp", "drop_x", "drop_y"}

\* C12: lambda_robust_asymmetry and lambda_keypoint_fixed answer a request
\* whose keypoints object lacks one of the four keypoints, or x or y in one of
\* them, with statusCode 400 and an error body, never with 500 and never with
\* a 200 assessment.
C12_MissingKeypointGives400 ==
    (Invoked /\ fn \in ScoreLambdas /\ Delivered /\ MissingKeypoint) =>
        Status = 400 /\ HasField("error")

\* ================================================================== C13
\* C13: whenever the request sets force_drift, lambda_robust_asymmetry and
\* lambda_keypoint_fixed return statusCode 200 with drift_detected true,
\* nihss_motor_score 3 and severity 'severe', whatever keypoints it carries.
C13_ForceDriftAlwaysSevere ==
    (Invoked /\ fn \in ScoreLambdas /\ Delivered /\ event.payload.force_drift) =>
        /\ Status = 200
        /\ Body.drift_detected = TRUE
        /\ Body.nihss_motor_score = 3
        /\ Body.severity = "severe"

\* ================================================================== C14
\* C14: in every statusCode-200 response of lambda_robust_asymmetry and
\* lambda_keypoint_fixed, responses to force_drift requests included,
\* nihss_total, nihss_motor_score and clinical_score carry the same value.
C14_ThreeScoresAgree ==
    (Invoked /\ fn \in ScoreLambdas /\ Status = 200) =>
        /\ Body.nihss_total = Body.nihss_motor_score
        /\ Body.clinical_score = Body.nihss_motor_score

\* ================================================================== C15
\* the method of a 200 response goes with its detection quality
MethodByQuality ==
    /\ Body.detection_quality \in {"poor", "fair", "good"}
    /\ Body.analysis_method = "absolute_vertical_drift"
           <=> Body.detection_quality = "poor"
    /\ Body.analysis_method = "normalized_vertical_drift"
           <=> Body.detection_quality \in {"fair", "good"}

\* the asymmetry_score is the one the method computes
ScoreByMethod ==
    IF Body.analysis_method = "absolute_vertical_drift"
    THEN ScoreEQ(Body.asymmetry_score, Abs(Pose.left_wrist.y - Pose.right_wrist.y), Grid)
    ELSE EuclideanFormula(Body.asymmetry_score, Pose)

\* C15 as stated: a statusCode-200 response of lambda_robust_asymmetry has
\* analysis_method 'absolute_vertical_drift', with asymmetry_score the wrist
\* difference, exactly when detection_quality is 'poor', and
\* 'normalized_vertical_drift', with asymmetry_score the wrist difference over
\* the average arm length, exactly when it is 'fair' or 'good'; 'very_poor'
\* never produces a statusCode-200 response.
C15_MethodByQuality ==
    (Invoked /\ fn = "lambda_robust_asymmetry" /\ Status = 200) =>
        MethodByQuality /\ ScoreByMethod

\* C15 as the Lambda behaves: the method goes with the detection quality as
\* stated and 'very_poor' is answered 400; the asymmetry_score is the one of
\* the method unless the request sets force_drift, when it is 0.08 under
\* either method.
C15_MethodByQualityScoreUnlessForced ==
    (Invoked /\ fn = "lambda_robust_asymmetry") =>
        /\ Status = 200 =>
               /\ MethodByQuality
               /\ IF event.payload.force_drift
                  THEN ScoreEQ(Body.asymmetry_score, 8, 100)
                  ELSE ScoreByMethod
        /\ (ArmsVeryUnequal(Pose)
              \/ AvgLenLT(LeftArmSq(Pose), RightArmSq(Pose), 2, 100)) => Status = 400

\* a force_drift request with unequal wrists and arms rated 'fair' was
\* answered with the normalized method and the forced score
C15_Witness ==
    /\ Invoked /\ fn = "lambda_robust_asymmetry" /\ Status = 200
    /\ event.payload.force_drift
    /\ Pose.left_wrist.y # Pose.right_wrist.y
    /\ Body.detection_quality = "fair"
    /\ Body.analysis_method = "normalized_vertical_drift"
    /\ ~EuclideanFormula(Body.asymmetry_score, Pose)

\* ================================================================== C16
\* the response of a keypoint Lambda to an event
ResponseOf(name, e) ==
    CASE name = "lambda_robust_asymmetry" -> Robust_lambda_handler(e)
      [] name = "lambda_keypoint_fixed" -> KeypointFixed_lambda_handler(e)
      [] OTHER -> Fast_lambda_handler(e, 0)

\* C16: lambda_robust_asymmetry, lambda_keypoint_fixed and lambda_fast_enhanced
\* return the same statusCode and the same scoring fields whether the payload
\* is delivered as a JSON string in event['body'], as an object in
\* event['body'], or as the event itself.
C16_SameForEveryDelivery ==
    (Invoked /\ fn \in KeypointLambdas /\ Delivered) =>
        \A s \in {"body_str", "body_obj", "direct"} :
            Scored(ResponseOf(fn, [event EXCEPT !.shape = s])) = Scored(response)

\* ================================================================== C17
\* C17: the asymmetry of lambda_fast_enhanced is scale-invariant: multiplying
\* the y of all four keypoints by the same positive factor leaves
\* asymmetry_score, severity and nihss_motor_score unchanged.
C17_ScaleInvariant ==
    (fn = "lambda_fast_enhanced" /\ nihss_result # NoResult) =>
        LET Unchanged(original) ==
                /\ \/ nihss_result.asymmetry_score = original.asymmetry_score
                   \/ /\ ScoreIsZero(nihss_result.asymmetry_score)
                      /\ ScoreIsZero(original.asymmetry_score)
                /\ nihss_result.severity = original.severity
                /\ nihss_result.nihss_motor_score = original.nihss_motor_score
        IN  Unchanged(Fast_ScaledResult(Pose, 1))

\* ================================================================== C18
\* C18: calculate_robust_asymmetry of robust_asymmetry_calculation.py and the
\* quality assessment of lambda_robust_asymmetry return a result, without a
\* division by zero, for every pose with all four keypoints in [0, 1], the
\* poses whose two arm lengths are 0 included.
C18_NoDivisionByZero ==
    (fn \in QualityFunctions /\ nihss_result # NoResult) =>
        /\ trace.handler = "none"
        /\ "detection_quality" \in DOMAIN nihss_result \/ "quality" \in DOMAIN nihss_result

\* ================================================================== C19
\* C19: lambda_full_nihss scores a valid test in which no movement is detected
\* (maximum drift below 1%) NIHSS 4, severity 'critical'.
C19_NoMovementIsCritical ==
    (Invoked /\ fn = "lambda_full_nihss" /\ Status = 200
       /\ RatLT(Body.max_drift, 1, 100)) =>
        Body.nihss_motor_score = 4 /\ Body.severity = "critical"

\* ================================================================== C20
\* C20: time_to_drift of analyze_drift_progression is greater than 0 whenever
\* a usable snapshot has an asymmetry above 15%, and 0 only when no snapshot
\* exceeds 15%.
C20_TimeToDriftMarksDrift ==
    (Invoked /\ fn = "lambda_full_nihss" /\ Status = 200) =>
        (Body.time_to_drift > 0 <=> RatGT(Body.max_drift, 15, 100))

\* ================================================================== C21
\* C21: a client script extracts the same drift_detected and severity from a
\* Lambda result whether the HTTP 200 response is the proxy envelope or the
\* bare result object; test_thresholds does so exactly as
\* final_comprehensive_test and deploy_improved_lambda do.
C21_SameFromEnvelopeAndBare ==
    (script \in ReadingScripts /\ Invoked) =>
        \A i, j \in DOMAIN results :
            /\ results[i].severity = results[j].severity
            /\ ("drift_detected" \in DOMAIN results[i]) =>
                   results[i].drift_detected = results[j].drift_detected

====
